---------------------------- MODULE Spec2Model ----------------------------
(***************************************************************************)
(* A model of the OpenAnalytics pipeline: the tiered AEO scoring engine    *)
(* (shared/scoring.py), the health stage (stage health/stage_health.py),   *)
(* the mentions stage (stage mentions/stage_mentions.py), the pipeline     *)
(* orchestrator (pipeline/run_pipeline.py), and the provider clients: the  *)
(* tool and retry loops of OpenRouterClient                                *)
(* (aeo-checks/openrouter_client.py) and the get_gemini_client singleton   *)
(* (shared/gemini_client.py).                                              *)
(*                                                                         *)
(* Conventions.                                                            *)
(*  - Text (check messages, provider answers, company names) is a sequence *)
(*    of one-character strings, so that str.lower() and the substring test *)
(*    `x in y` are computed and not assumed.                               *)
(*  - Scores are exact rationals.  A score that the code rounds to one     *)
(*    decimal is held in tenths (final_score 25.0 is the integer 250).     *)
(*    The rounding error of binary floating point is not modelled.         *)
(*  - Wall-clock fields (execution_time, fetch_time_ms) are left out of    *)
(*    the output records: no decision of the code reads them.              *)
(***************************************************************************)
EXTENDS Integers, Sequences, FiniteSets, TLC

VARIABLES
    \* ---- run_stage_health (stage health/stage_health.py) ----
    h_pc,                \* position in run_stage_health
    fetch_result,        \* what fetch_website returned
    all_results,         \* technical + structured + crawler + authority results so far
    health_output,       \* the HealthStageOutput returned
    h_calls,             \* the collaborators run_stage_health has called
    score_before,        \* re-analysis: the score of the previous analysis
    fixes,               \* re-analysis: how many checks were fixed so far
    \* ---- run_stage_mentions (stage mentions/stage_mentions.py) ----
    m_pc,                \* position in run_stage_mentions
    m_input,             \* the MentionsStageInput
    queries,             \* what generate_hyperniche_queries returned
    gen_path,            \* how it returned: "primary", "fallback", or the exception raised
    probes,              \* the gathered test_query_with_gemini tasks
    completed,           \* the order in which the probes completed
    ai_calls,            \* the stage's ai_calls counter
    mentions_output,     \* the MentionsStageOutput returned
    \* ---- the metrics of run_stage_mentions on a given list of results ----
    a_results,           \* the gathered QueryResults
    a_metrics,           \* mentions, visibility, presence_rate, quality_score
    \* ---- run_pipeline (pipeline/run_pipeline.py) ----
    p_pc,                \* position in run_pipeline
    p_input,             \* the PipelineInput
    health_task,         \* the run_health_check branch
    mentions_task,       \* the run_mentions_check branch
    p_ended,             \* the branches in the order in which they ended
    p_output,            \* the PipelineOutput returned
    \* ---- one call of the scoring engine (shared/scoring.py) ----
    s_call,              \* the function called and its arguments
    s_result,            \* what it returned, and what it returned on a shorter list
    s_base,              \* base_score of line 217 in each of these calls, exact
    \* ---- calls of generate_hyperniche_queries / test_query_with_gemini ----
    q_call,              \* the function called and its arguments
    q_result,            \* the provider's behaviour and the return of each call so far
    \* ---- one call of OpenRouterClient (aeo-checks/openrouter_client.py) ----
    o_call,              \* the method called and its arguments
    o_ctl,               \* position, locals of the loops, attempts so far, outcome
    \* ---- get_gemini_client (shared/gemini_client.py) ----
    g_global,            \* the module global _gemini_client, constructions so far
    g_env,               \* whether GEMINI_API_KEY is in the environment
    g_tasks              \* the coroutines that ask for the client

healthVars == <<h_pc, fetch_result, all_results, health_output, h_calls,
                score_before, fixes>>

mentionsVars == <<m_pc, m_input, queries, gen_path, probes, completed,
                  ai_calls, mentions_output>>

aggregateVars == <<a_results, a_metrics>>

pipelineVars == <<p_pc, p_input, health_task, mentions_task, p_ended, p_output>>

scoringVars == <<s_call, s_result, s_base>>

queryVars == <<q_call, q_result>>

openRouterVars == <<o_call, o_ctl>>

singletonVars == <<g_global, g_env, g_tasks>>

vars == <<healthVars, mentionsVars, aggregateVars, pipelineVars, scoringVars, queryVars,
         openRouterVars, singletonVars>>

\* what an action of one part leaves alone
notHealth == <<mentionsVars, aggregateVars, pipelineVars, scoringVars, queryVars,
    openRouterVars, singletonVars>>
notMentions == <<healthVars, aggregateVars, pipelineVars, scoringVars, queryVars,
    openRouterVars, singletonVars>>
notAggregate == <<healthVars, mentionsVars, pipelineVars, scoringVars, queryVars,
    openRouterVars, singletonVars>>
notPipeline == <<healthVars, mentionsVars, aggregateVars, scoringVars, queryVars,
    openRouterVars, singletonVars>>
notScoring == <<healthVars, mentionsVars, aggregateVars, pipelineVars, queryVars,
    openRouterVars, singletonVars>>
notQueries == <<healthVars, mentionsVars, aggregateVars, pipelineVars, scoringVars,
    openRouterVars, singletonVars>>
notOpenRouter == <<healthVars, mentionsVars, aggregateVars, pipelineVars, scoringVars,
    queryVars, singletonVars>>
notSingleton == <<healthVars, mentionsVars, aggregateVars, pipelineVars, scoringVars,
    queryVars, openRouterVars>>

-----------------------------------------------------------------------------
(***************************************************************************)
(* Text helpers: Python's str.lower(), `needle in hay`, int(digits).       *)
(***************************************************************************)
UpperCase == <<"A","B","C","D","E","F","G","H","I","J","K","L","M","N","O","P","Q","R","S","T","U","V","W","X","Y","Z">>
LowerCase == <<"a","b","c","d","e","f","g","h","i","j","k","l","m","n","o","p","q","r","s","t","u","v","w","x","y","z">>
Digits == <<"0","1","2","3","4","5","6","7","8","9">>

LowerChar(c) ==
    IF \E k \in 1..26 : UpperCase[k] = c
    THEN LowerCase[CHOOSE k \in 1..26 : UpperCase[k] = c]
    ELSE c

\* str.lower() that changes nothing
Lower_Identity(s) == s

Lower(s) == [i \in 1..Len(s) |-> LowerChar(s[i])]

Contains(needle, hay) ==
    \E i \in 0..(Len(hay) - Len(needle)) :
        SubSeq(hay, i + 1, i + Len(needle)) = needle

IsDigit(c) == \E k \in 1..10 : Digits[k] = c

DigitVal(c) == (CHOOSE k \in 1..10 : Digits[k] = c) - 1

RECURSIVE ParseInt(_)
ParseInt(s) ==
    IF s = <<>> THEN 0
    ELSE 10 * ParseInt(SubSeq(s, 1, Len(s) - 1)) + DigitVal(s[Len(s)])

\* re.search(r'(\d+)%', s): the digits of the leftmost match, <<>> if none.
\* A match starts at a digit i and takes the whole digit run from i, which
\* must be followed by "%".
PercentMatch(s) ==
    LET runEnd(i) == CHOOSE j \in i..Len(s) :
                        /\ \A k \in i..j : IsDigit(s[k])
                        /\ (j = Len(s) \/ ~IsDigit(s[j + 1]))
        ok(i) == /\ IsDigit(s[i])
                 /\ runEnd(i) < Len(s)
                 /\ s[runEnd(i) + 1] = "%"
        starts == {i \in 1..Len(s) : ok(i)}
    IN  IF starts = {} THEN <<>>
        ELSE LET i == CHOOSE x \in starts : \A y \in starts : x <= y
             IN  SubSeq(s, i, runEnd(i))

Min2(a, b) == IF a <= b THEN a ELSE b

\* round(n/d, 0) for n >= 0, d > 0, ties to even (Python's round).
RoundHalfEven(n, d) ==
    LET q == n \div d
        r == n % d
    IN  IF 2 * r < d THEN q
        ELSE IF 2 * r > d THEN q + 1
        ELSE IF q % 2 = 0 THEN q ELSE q + 1

RECURSIVE SumSeq(_)
SumSeq(s) == IF s = <<>> THEN 0 ELSE Head(s) + SumSeq(Tail(s))

\* [x for x in s if P(x)]
RECURSIVE SelectIdx(_, _)
SelectIdx(s, keep) ==
    IF s = <<>> THEN <<>>
    ELSE SelectIdx(SubSeq(s, 1, Len(s) - 1), keep)
         \o (IF Len(s) \in keep THEN <<s[Len(s)]>> ELSE <<>>)

-----------------------------------------------------------------------------
(***************************************************************************)
(* Messages the check functions emit (the check modules are collaborators; *)
(* these are the inputs the engine is exercised with) and the literals the *)
(* engine searches for.                                                    *)
(***************************************************************************)
Msg ==
    [NoOrgSchema |-> <<"N","o"," ","O","r","g","a","n","i","z","a","t","i","o","n"," ","s","c","h","e","m","a"," ","f","o","u","n","d">>,
     Org50 |-> <<"O","r","g","a","n","i","z","a","t","i","o","n"," ","s","c","h","e","m","a"," ","5","0","%"," ","c","o","m","p","l","e","t","e">>,
     Org100 |-> <<"O","r","g","a","n","i","z","a","t","i","o","n"," ","s","c","h","e","m","a"," ","1","0","0","%"," ","c","o","m","p","l","e","t","e">>,
     NoindexFound |-> <<"P","a","g","e"," ","h","a","s"," ","N","O","I","N","D","E","X"," ","d","i","r","e","c","t","i","v","e">>,
     Indexable |-> <<"N","o"," ","n","o","i","n","d","e","x"," ","d","i","r","e","c","t","i","v","e">>,
     TitleOk |-> <<"T","i","t","l","e"," ","t","a","g"," ","p","r","e","s","e","n","t">>,
     TitleMissing |-> <<"M","i","s","s","i","n","g"," ","t","i","t","l","e"," ","t","a","g">>,
     MetaOk |-> <<"M","e","t","a"," ","d","e","s","c","r","i","p","t","i","o","n"," ","p","r","e","s","e","n","t">>,
     MetaMissing |-> <<"M","i","s","s","i","n","g"," ","m","e","t","a"," ","d","e","s","c","r","i","p","t","i","o","n">>,
     Ok |-> <<"O","K">>,
     Nofollow |-> <<"P","a","g","e"," ","h","a","s"," ","n","o","f","o","l","l","o","w"," ","d","i","r","e","c","t","i","v","e">>,
     Blocked |-> <<"B","l","o","c","k","e","d"," ","i","n"," ","r","o","b","o","t","s",".","t","x","t">>]

Needle ==
    [Noindex |-> <<"n","o","i","n","d","e","x">>,
     NoOrg |-> <<"n","o"," ","o","r","g","a","n","i","z","a","t","i","o","n"," ","s","c","h","e","m","a">>,
     MissingTitle |-> <<"m","i","s","s","i","n","g"," ","t","i","t","l","e">>,
     Missing |-> <<"m","i","s","s","i","n","g">>]

-----------------------------------------------------------------------------
(***************************************************************************)
(* shared/scoring.py                                                       *)
(***************************************************************************)
ai_crawler_checks == {"gptbot_access", "claude_access", "perplexitybot_access", "ccbot_access"}

Tier(passed, cap, reason) == [passed |-> passed, cap |-> cap, reason |-> reason]

evaluate_tier0_critical(issues) ==
    LET blocked_crawlers ==
            {i \in 1..Len(issues) :
                issues[i].check \in ai_crawler_checks /\ ~issues[i].passed}
        n == Cardinality(blocked_crawlers)
        noindex ==
            \E i \in 1..Len(issues) :
                /\ issues[i].check = "robots_meta"
                /\ Contains(Needle.Noindex, Lower(issues[i].message))
                /\ ~issues[i].passed
    IN  IF n >= 4 THEN Tier(FALSE, 10, <<"Blocks all AI crawlers - invisible to AI">>)
        ELSE IF n >= 3 THEN Tier(FALSE, 25, <<"Blocks most AI crawlers", ToString(n), "/4">>)
        ELSE IF noindex THEN Tier(FALSE, 5, <<"Has noindex - won't be indexed by AI">>)
        ELSE Tier(TRUE, 100, <<"AI can access site">>)

\* the evaluation of tier 1 with the cap of the module docstring (50) for a
\* missing Organization schema
evaluate_tier1_essential_Cap50(issues) ==
    IF \E i \in 1..Len(issues) :
            /\ issues[i].check = "org_schema_completeness"
            /\ ~Contains(Needle.NoOrg, Lower(issues[i].message))
    THEN Tier(TRUE, 100, <<"Has essential elements">>)
    ELSE Tier(FALSE, 50, <<"Missing Organization schema - AI can't identify entity">>)

evaluate_tier1_essential(issues) ==
    LET has_org_schema ==
            \E i \in 1..Len(issues) :
                /\ issues[i].check = "org_schema_completeness"
                /\ ~Contains(Needle.NoOrg, Lower(issues[i].message))
        has_title ==
            \E i \in 1..Len(issues) :
                /\ issues[i].check = "title_tag"
                /\ ~Contains(Needle.MissingTitle, Lower(issues[i].message))
        has_https ==
            \E i \in 1..Len(issues) :
                issues[i].check = "https" /\ issues[i].passed
        missing ==
            (IF ~has_org_schema THEN <<"Organization schema">> ELSE <<>>)
            \o (IF ~has_title THEN <<"title tag">> ELSE <<>>)
            \o (IF ~has_https THEN <<"HTTPS">> ELSE <<>>)
    IN  IF ~has_org_schema
        THEN Tier(FALSE, 45, <<"Missing Organization schema - AI can't identify entity">>)
        ELSE IF missing # <<>>
        THEN Tier(FALSE, 55, <<"Missing essentials:">> \o missing)
        ELSE Tier(TRUE, 100, <<"Has essential elements">>)

\* evaluate_tier2_important taking a sameas_links check in the list for
\* sameAs links, passed or not
evaluate_tier2_important_SameAsListed(issues) ==
    LET orgIdx == {i \in 1..Len(issues) :
                      /\ issues[i].check = "org_schema_completeness"
                      /\ ~Contains(Needle.NoOrg, Lower(issues[i].message))}
        org_partial == orgIdx # {}
        completeOf(i) ==
            LET text == IF issues[i].message = <<>> THEN <<"0", "%">>
                        ELSE issues[i].message
                match == PercentMatch(text)
            IN  match # <<>> /\ ParseInt(match) >= 70
        org_complete == \E i \in orgIdx : completeOf(i)
        has_meta_desc ==
            \E i \in 1..Len(issues) :
                /\ issues[i].check = "meta_description"
                /\ ~Contains(Needle.Missing, Lower(issues[i].message))
        good_content ==
            \E i \in 1..Len(issues) :
                issues[i].check = "content_word_count" /\ issues[i].passed
        has_sameas ==
            \E i \in 1..Len(issues) :
                issues[i].check = "sameas_links"
        critical_issues == <<>>
        important_issues ==
            (IF org_partial /\ ~org_complete
             THEN <<"incomplete Organization schema">> ELSE <<>>)
            \o (IF ~has_sameas THEN <<"no sameAs links">> ELSE <<>>)
        minor_issues ==
            (IF ~has_meta_desc THEN <<"no meta description">> ELSE <<>>)
            \o (IF ~good_content THEN <<"thin content">> ELSE <<>>)
    IN  IF Len(critical_issues) > 0
        THEN Tier(FALSE, 70, <<"Critical:">> \o critical_issues)
        ELSE IF Len(important_issues) >= 2
        THEN Tier(FALSE, 75, <<"Issues:">> \o important_issues)
        ELSE IF Len(important_issues) = 1
        THEN Tier(FALSE, 85, <<"Issue:">> \o important_issues)
        ELSE IF Len(minor_issues) >= 2
        THEN Tier(FALSE, 90, <<"Minor issues:">> \o minor_issues)
        ELSE IF Len(minor_issues) = 1
        THEN Tier(FALSE, 95, <<"Minor:">> \o minor_issues)
        ELSE Tier(TRUE, 100, <<"Excellent AEO optimization">>)

evaluate_tier2_important(issues) ==
    LET orgIdx == {i \in 1..Len(issues) :
                      /\ issues[i].check = "org_schema_completeness"
                      /\ ~Contains(Needle.NoOrg, Lower(issues[i].message))}
        org_partial == orgIdx # {}
        completeOf(i) ==
            LET text == IF issues[i].message = <<>> THEN <<"0", "%">>
                        ELSE issues[i].message
                match == PercentMatch(text)
            IN  match # <<>> /\ ParseInt(match) >= 70
        org_complete == \E i \in orgIdx : completeOf(i)
        has_meta_desc ==
            \E i \in 1..Len(issues) :
                /\ issues[i].check = "meta_description"
                /\ ~Contains(Needle.Missing, Lower(issues[i].message))
        good_content ==
            \E i \in 1..Len(issues) :
                issues[i].check = "content_word_count" /\ issues[i].passed
        has_sameas ==
            \E i \in 1..Len(issues) :
                issues[i].check = "sameas_links" /\ issues[i].passed
        critical_issues == <<>>
        important_issues ==
            (IF org_partial /\ ~org_complete
             THEN <<"incomplete Organization schema">> ELSE <<>>)
            \o (IF ~has_sameas THEN <<"no sameAs links">> ELSE <<>>)
        minor_issues ==
            (IF ~has_meta_desc THEN <<"no meta description">> ELSE <<>>)
            \o (IF ~good_content THEN <<"thin content">> ELSE <<>>)
    IN  IF Len(critical_issues) > 0
        THEN Tier(FALSE, 70, <<"Critical:">> \o critical_issues)
        ELSE IF Len(important_issues) >= 2
        THEN Tier(FALSE, 75, <<"Issues:">> \o important_issues)
        ELSE IF Len(important_issues) = 1
        THEN Tier(FALSE, 85, <<"Issue:">> \o important_issues)
        ELSE IF Len(minor_issues) >= 2
        THEN Tier(FALSE, 90, <<"Minor issues:">> \o minor_issues)
        ELSE IF Len(minor_issues) = 1
        THEN Tier(FALSE, 95, <<"Minor:">> \o minor_issues)
        ELSE Tier(TRUE, 100, <<"Excellent AEO optimization">>)

\* calculate_base_score looking at the severity before it looks at passed
calculate_base_score_SeverityFirst(issues) ==
    LET total_impact == SumSeq([i \in 1..Len(issues) |-> issues[i].score_impact])
        earned10(c) ==
            IF c.severity = "notice" THEN 7 * c.score_impact
            ELSE IF c.severity = "warning" THEN 3 * c.score_impact
            ELSE IF c.passed THEN 10 * c.score_impact
            ELSE 0
        earned_impact10 == SumSeq([i \in 1..Len(issues) |-> earned10(issues[i])])
    IN  IF total_impact > 0
        THEN [num |-> 100 * earned_impact10, den |-> 10 * total_impact]
        ELSE [num |-> 0, den |-> 1]

\* calculate_base_score, exactly: the score is the rational num/den with
\* num = 100 * (10 * earned_impact) and den = 10 * total_impact
\* (earned_impact is counted in tenths because of the 0.7 and 0.3 credits).
calculate_base_score(issues) ==
    LET total_impact == SumSeq([i \in 1..Len(issues) |-> issues[i].score_impact])
        earned10(c) ==
            IF c.passed THEN 10 * c.score_impact
            ELSE IF c.severity = "notice" THEN 7 * c.score_impact
            ELSE IF c.severity = "warning" THEN 3 * c.score_impact
            ELSE 0
        earned_impact10 == SumSeq([i \in 1..Len(issues) |-> earned10(issues[i])])
    IN  IF total_impact > 0
        THEN [num |-> 100 * earned_impact10, den |-> 10 * total_impact]
        ELSE [num |-> 0, den |-> 1]

\* round(x, 1) of the rational x = num/den, in tenths.
Round1(x) == RoundHalfEven(10 * x.num, x.den)

\* TieredScoreOf with tier2_cap left out of the min of line 219.
TieredScoreOf_NoTier2(tier0, tier1, tier2, base_score) ==
    LET d == base_score.den
        finalN == Min2(Min2(tier0.cap * d, tier1.cap * d), base_score.num)
        limiting ==
            IF tier0.cap * d <= finalN + d THEN <<"tier0", tier0.reason>>
            ELSE IF tier1.cap * d <= finalN + d THEN <<"tier1", tier1.reason>>
            ELSE IF tier2.cap * d <= finalN + d THEN <<"tier2", tier2.reason>>
            ELSE <<"base", <<"Check performance">>>>
    IN  [final_score |-> Round1([num |-> finalN, den |-> d]),
         tier_details |->
            [tier0 |-> tier0, tier1 |-> tier1, tier2 |-> tier2,
             base_score |-> Round1(base_score),
             limiting_tier |-> limiting[1],
             limiting_reason |-> limiting[2]]]

\* lines 224-232 without the tolerance of 1.0
TieredScoreOf_NoTolerance(tier0, tier1, tier2, base_score) ==
    LET d == base_score.den
        finalN == Min2(Min2(tier0.cap * d, tier1.cap * d),
                       Min2(tier2.cap * d, base_score.num))
        limiting ==
            IF tier0.cap * d <= finalN THEN <<"tier0", tier0.reason>>
            ELSE IF tier1.cap * d <= finalN THEN <<"tier1", tier1.reason>>
            ELSE IF tier2.cap * d <= finalN THEN <<"tier2", tier2.reason>>
            ELSE <<"base", <<"Check performance">>>>
    IN  [final_score |-> Round1([num |-> finalN, den |-> d]),
         tier_details |->
            [tier0 |-> tier0, tier1 |-> tier1, tier2 |-> tier2,
             base_score |-> Round1(base_score),
             limiting_tier |-> limiting[1],
             limiting_reason |-> limiting[2]]]

\* lines 219-243 of calculate_tiered_score, given the three tier verdicts and
\* the base score of lines 213-217
TieredScoreOf(tier0, tier1, tier2, base_score) ==
    LET d == base_score.den
        \* min(tier0_cap, tier1_cap, tier2_cap, base_score), times d
        finalN == Min2(Min2(tier0.cap * d, tier1.cap * d),
                       Min2(tier2.cap * d, base_score.num))
        limiting ==
            IF tier0.cap * d <= finalN + d THEN <<"tier0", tier0.reason>>
            ELSE IF tier1.cap * d <= finalN + d THEN <<"tier1", tier1.reason>>
            ELSE IF tier2.cap * d <= finalN + d THEN <<"tier2", tier2.reason>>
            ELSE <<"base", <<"Check performance">>>>
    IN  [final_score |-> Round1([num |-> finalN, den |-> d]),
         tier_details |->
            [tier0 |-> tier0, tier1 |-> tier1, tier2 |-> tier2,
             base_score |-> Round1(base_score),
             limiting_tier |-> limiting[1],
             limiting_reason |-> limiting[2]]]

calculate_tiered_score(issues) ==
    TieredScoreOf(evaluate_tier0_critical(issues),
                  evaluate_tier1_essential(issues),
                  evaluate_tier2_important(issues),
                  calculate_base_score(issues))

\* calculate_grade without the grade A+
calculate_grade_NoAPlus(score) ==
    IF score >= 800 THEN "A"
    ELSE IF score >= 650 THEN "B"
    ELSE IF score >= 450 THEN "C"
    ELSE IF score >= 250 THEN "D"
    ELSE "F"

\* score is in tenths: 90 is 900.
calculate_grade(score) ==
    IF score >= 900 THEN "A+"
    ELSE IF score >= 800 THEN "A"
    ELSE IF score >= 650 THEN "B"
    ELSE IF score >= 450 THEN "C"
    ELSE IF score >= 250 THEN "D"
    ELSE "F"

\* calculate_visibility_band with open thresholds (score > 80, ...)
calculate_visibility_band_OpenThresholds(score) ==
    IF score > 800 THEN <<"Excellent", "#22c55e">>
    ELSE IF score > 650 THEN <<"Strong", "#84cc16">>
    ELSE IF score > 450 THEN <<"Moderate", "#eab308">>
    ELSE IF score > 250 THEN <<"Weak", "#f97316">>
    ELSE <<"Critical", "#ef4444">>

calculate_visibility_band(score) ==
    IF score >= 800 THEN <<"Excellent", "#22c55e">>
    ELSE IF score >= 650 THEN <<"Strong", "#84cc16">>
    ELSE IF score >= 450 THEN <<"Moderate", "#eab308">>
    ELSE IF score >= 250 THEN <<"Weak", "#f97316">>
    ELSE <<"Critical", "#ef4444">>

-----------------------------------------------------------------------------
(***************************************************************************)
(* The check results the stage is exercised with.  The check modules       *)
(* (checks/technical.py, ...) are collaborators: each returns a list of    *)
(* CheckResult dicts.  One result per identifier, passing or failing.      *)
(***************************************************************************)
None == "<None>"

\* How many failing checks a re-analysis may fix in a row.
MaxFixes == 1

CheckResult(check, category, passed, severity, message, score_impact) ==
    [check |-> check, category |-> category, passed |-> passed,
     severity |-> severity, message |-> message, score_impact |-> score_impact]

\* CheckResult.score_impact defaults to 5 (shared/models.py); the crawler
\* weights are those of AI_CRAWLERS (shared/constants.py).
ScoreImpact(check) ==
    CASE check = "gptbot_access" -> 8
      [] check = "ccbot_access" -> 4
      [] OTHER -> 5

Passing(check, category, message) ==
    CheckResult(check, category, TRUE, "pass", message, ScoreImpact(check))

Failing(check, category, severity, message) ==
    CheckResult(check, category, FALSE, severity, message, ScoreImpact(check))

TitleTagResults ==
    {Passing("title_tag", "technical", Msg.TitleOk),
     Failing("title_tag", "technical", "error", Msg.TitleMissing)}

HttpsResults ==
    {Passing("https", "technical", Msg.Ok),
     Failing("https", "technical", "error", Msg.Blocked)}

MetaDescriptionResults ==
    {Passing("meta_description", "technical", Msg.MetaOk),
     Failing("meta_description", "technical", "warning", Msg.MetaMissing)}

ContentWordCountResults ==
    {Passing("content_word_count", "technical", Msg.Ok),
     Failing("content_word_count", "technical", "notice", Msg.Ok)}

RobotsMetaResults ==
    {Passing("robots_meta", "technical", Msg.Indexable),
     Failing("robots_meta", "technical", "error", Msg.NoindexFound),
     Failing("robots_meta", "technical", "warning", Msg.Nofollow)}

OrgSchemaResults ==
    {Passing("org_schema_completeness", "structured_data", Msg.Org100),
     Failing("org_schema_completeness", "structured_data", "warning", Msg.Org50),
     Failing("org_schema_completeness", "structured_data", "error", Msg.NoOrgSchema)}

SameAsResults ==
    {Passing("sameas_links", "authority", Msg.Ok),
     Failing("sameas_links", "authority", "warning", Msg.Ok)}

CrawlerResults(check) ==
    {Passing(check, "ai_crawler", Msg.Ok),
     Failing(check, "ai_crawler", "error", Msg.Blocked)}

\* The identifier of the Anthropic crawler check: the engine looks up
\* claude_access, the crawler table (AI_CRAWLERS) names it claudebot.
ClaudeCheckNames == {"claude_access", "claudebot_access"}

TechnicalFamily ==
    {<<t, h, m, c, r>> :
        t \in TitleTagResults, h \in HttpsResults, m \in MetaDescriptionResults,
        c \in ContentWordCountResults, r \in RobotsMetaResults}

StructuredFamily == {<<o>> : o \in OrgSchemaResults}

CrawlerFamily ==
    UNION {{<<g, c, p, b>> :
                g \in CrawlerResults("gptbot_access"), c \in CrawlerResults(name),
                p \in CrawlerResults("perplexitybot_access"),
                b \in CrawlerResults("ccbot_access")} : name \in ClaudeCheckNames}

AuthorityFamily == {<<s>> : s \in SameAsResults}

FetchErrors == {"Connection refused", "HTTP 403"}

\* FetchResult (shared/models.py): error is None or a message.
FetchOutcomes ==
    [error : FetchErrors, final_url : {"https://example.com"}, js_rendered : BOOLEAN]
    \cup [error : {None}, final_url : {"https://example.com"}, js_rendered : {TRUE}]

-----------------------------------------------------------------------------
(***************************************************************************)
(* stage health/stage_health.py: run_stage_health                          *)
(***************************************************************************)
\* FetchFailureOutput that counts the one synthetic issue as the failed checks.
FetchFailureOutput_CountsIssues(fr) ==
    [url |-> fr.final_url,
     score |-> 0,
     grade |-> "F",
     band |-> "Critical",
     band_color |-> "#ef4444",
     checks_passed |-> 0,
     checks_failed |-> 1,
     issues |-> <<[check |-> "fetch", category |-> "critical", passed |-> FALSE,
                   severity |-> "error", message |-> fr.error]>>,
     tier_details |->
        [tier0 |-> Tier(FALSE, 0, <<fr.error>>),
         tier1 |-> Tier(FALSE, 0, <<"Could not fetch">>),
         tier2 |-> Tier(FALSE, 0, <<"Could not fetch">>),
         base_score |-> 0,
         limiting_tier |-> "tier0",
         limiting_reason |-> <<fr.error>>],
     js_rendered |-> fr.js_rendered]

\* the HealthStageOutput of the fetch-failure branch, lines 59-88
FetchFailureOutput(fr) ==
    [url |-> fr.final_url,
     score |-> 0,
     grade |-> "F",
     band |-> "Critical",
     band_color |-> "#ef4444",
     checks_passed |-> 0,
     checks_failed |-> 29,
     issues |-> <<[check |-> "fetch", category |-> "critical", passed |-> FALSE,
                   severity |-> "error", message |-> fr.error]>>,
     tier_details |->
        [tier0 |-> Tier(FALSE, 0, <<fr.error>>),
         tier1 |-> Tier(FALSE, 0, <<"Could not fetch">>),
         tier2 |-> Tier(FALSE, 0, <<"Could not fetch">>),
         base_score |-> 0,
         limiting_tier |-> "tier0",
         limiting_reason |-> <<fr.error>>],
     js_rendered |-> fr.js_rendered]

\* the HealthStageOutput of a scored page, lines 113-137, given the
\* (final_score, tier_details) of line 112
OutputOf(fr, results, scored) ==
    LET passedIdx == {i \in 1..Len(results) : results[i].passed = TRUE}
    IN  [url |-> fr.final_url,
         score |-> scored.final_score,
         grade |-> calculate_grade(scored.final_score),
         band |-> calculate_visibility_band(scored.final_score)[1],
         band_color |-> calculate_visibility_band(scored.final_score)[2],
         checks_passed |-> Cardinality(passedIdx),
         checks_failed |-> Len(results) - Cardinality(passedIdx),
         issues |-> SelectIdx(results, (1..Len(results)) \ passedIdx),
         tier_details |-> scored.tier_details,
         js_rendered |-> fr.js_rendered]

\* lines 111-137
ScoredOutput(fr, results) ==
    OutputOf(fr, results, calculate_tiered_score(results))

HealthInit ==
    /\ h_pc = "start"
    /\ fetch_result = [error |-> None, final_url |-> None, js_rendered |-> FALSE]
    /\ all_results = <<>>
    /\ health_output = <<>>
    /\ h_calls = {}
    /\ score_before = -1
    /\ fixes = 0

\* lines 53-57: await fetch_website(...)
FetchWebsite ==
    /\ h_pc = "start"
    /\ \E fr \in FetchOutcomes : fetch_result' = fr
    /\ h_calls' = h_calls \cup {"fetch_website"}
    /\ h_pc' = "fetched"
    /\ UNCHANGED <<all_results, health_output, score_before, fixes>>
    /\ UNCHANGED notHealth

\* lines 59-88: if fetch_result.error: return HealthStageOutput(score=0.0, ...)
ReturnFetchFailure ==
    /\ h_pc = "fetched"
    /\ fetch_result.error # None
    /\ health_output' = <<FetchFailureOutput(fetch_result)>>
    /\ h_pc' = "done"
    /\ UNCHANGED <<fetch_result, all_results, h_calls, score_before, fixes>>
    /\ UNCHANGED notHealth

\* lines 90-97
RunTechnicalChecks ==
    /\ h_pc = "fetched"
    /\ fetch_result.error = None
    /\ \E r \in TechnicalFamily : all_results' = all_results \o r
    /\ h_calls' = h_calls \cup {"run_technical_checks"}
    /\ h_pc' = "structured"
    /\ UNCHANGED <<fetch_result, health_output, score_before, fixes>>
    /\ UNCHANGED notHealth

\* lines 99-100
RunStructuredDataChecks ==
    /\ h_pc = "structured"
    /\ \E r \in StructuredFamily : all_results' = all_results \o r
    /\ h_calls' = h_calls \cup {"run_structured_data_checks"}
    /\ h_pc' = "crawler"
    /\ UNCHANGED <<fetch_result, health_output, score_before, fixes>>
    /\ UNCHANGED notHealth

\* lines 102-103
RunAeoCrawlerChecks ==
    /\ h_pc = "crawler"
    /\ \E r \in CrawlerFamily : all_results' = all_results \o r
    /\ h_calls' = h_calls \cup {"run_aeo_crawler_checks"}
    /\ h_pc' = "authority"
    /\ UNCHANGED <<fetch_result, health_output, score_before, fixes>>
    /\ UNCHANGED notHealth

\* lines 105-109
RunAuthorityChecks ==
    /\ h_pc = "authority"
    /\ \E r \in AuthorityFamily : all_results' = all_results \o r
    /\ h_calls' = h_calls \cup {"run_authority_checks"}
    /\ h_pc' = "score"
    /\ UNCHANGED <<fetch_result, health_output, score_before, fixes>>
    /\ UNCHANGED notHealth

\* lines 111-137: score, grade, band, counts, return
ScoreAndReturn ==
    /\ h_pc = "score"
    /\ health_output' = <<ScoredOutput(fetch_result, all_results)>>
    /\ h_calls' = h_calls \cup {"calculate_tiered_score"}
    /\ h_pc' = "done"
    /\ UNCHANGED <<fetch_result, all_results, score_before, fixes>>
    /\ UNCHANGED notHealth

\* The site fixes one failing check and the page is analysed again: the
\* checks return what they returned, except that check i now passes (its
\* message and every other check unchanged), and lines 111-137 run on that.
ReanalyseAfterFix(i) ==
    /\ h_pc = "done"
    /\ fetch_result.error = None
    /\ fixes < MaxFixes
    /\ ~all_results[i].passed
    /\ all_results' = [all_results EXCEPT ![i].passed = TRUE]
    /\ health_output' = <<ScoredOutput(fetch_result, all_results')>>
    /\ score_before' = health_output[1].score
    /\ fixes' = fixes + 1
    /\ UNCHANGED <<h_pc, fetch_result, h_calls>>
    /\ UNCHANGED notHealth

HealthNext ==
    \/ FetchWebsite
    \/ ReturnFetchFailure
    \/ RunTechnicalChecks
    \/ RunStructuredDataChecks
    \/ RunAeoCrawlerChecks
    \/ RunAuthorityChecks
    \/ ScoreAndReturn
    \/ \E i \in 1..Len(all_results) : ReanalyseAfterFix(i)

-----------------------------------------------------------------------------
(***************************************************************************)
(* stage mentions/stage_mentions.py                                        *)
(*                                                                         *)
(* The provider (shared/gemini_client.py behind get_gemini_client) is a    *)
(* collaborator.  One call to it ends in one of: the client cannot be      *)
(* constructed (get_gemini_client raises), the call raises, or a response  *)
(* dict {success, response}.                                               *)
(*                                                                         *)
(* The text of a generation response is a sequence of tokens: a code       *)
(* fence "```json", a code fence "```", whitespace, a JSON document, or    *)
(* text that is no JSON.  A JSON document is an array of objects, a        *)
(* string, an object, a number or null.  An object of an array is held as  *)
(* the set of its keys with its query and dimension values.                *)
(***************************************************************************)
\* the largest num_queries a run is given
MaxNumQueries == 3
\* the longest JSON array the provider answers with
MaxArrayLen == 4

CompanyName == <<"A","c","m","e">>
Txt ==
    [Best |-> <<"b","e","s","t"," ">>,
     For |-> <<" ","f","o","r"," ">>,
     Solution |-> <<"s","o","l","u","t","i","o","n">>,
     Companies |-> <<"c","o","m","p","a","n","i","e","s">>,
     Alternatives |-> <<" ","a","l","t","e","r","n","a","t","i","v","e","s">>,
     CRM |-> <<"C","R","M">>,
     SaaS |-> <<"S","a","a","S">>]

TextMention == <<"T","r","y"," ","A","C","M","E"," ","f","i","r","s","t">>
TextNoMention == <<"T","r","y"," ","G","l","o","b","e","x">>

JsonValue(t, items, chars) == [t |-> t, items |-> items, chars |-> chars]
JArray(items) == JsonValue("array", items, <<>>)
JString(chars) == JsonValue("string", <<>>, chars)
JObject == JsonValue("object", <<>>, <<>>)
JNumber == JsonValue("number", <<>>, <<>>)
JNull == JsonValue("null", <<>>, <<>>)

\* {"query": ..., "dimension": ...}
QueryDict(query, dimension) ==
    [keys |-> {"query", "dimension"}, query |-> query, dimension |-> dimension]

\* the k-th query of a provider answer
GeneratedQuery(k) == QueryDict(<<"q", ToString(k)>>, "UNBRANDED_HYPERNICHE")

\* an array element without a "query" key: {"dimension": ...}
NoQueryDict == [keys |-> {"dimension"}, query |-> <<>>, dimension |-> "BRANDED_DIRECT"]

Tok(kind, val) == [tok |-> kind, val |-> val]
FenceJson == Tok("fence_json", JNull)
Fence == Tok("fence", JNull)
Ws == Tok("ws", JNull)
Junk == Tok("junk", JNull)
Json(v) == Tok("json", v)

\* str.strip()
RECURSIVE LStrip(_)
LStrip(text) ==
    IF text # <<>> /\ Head(text).tok = "ws" THEN LStrip(Tail(text)) ELSE text

RECURSIVE RStrip(_)
RStrip(text) ==
    IF text # <<>> /\ text[Len(text)].tok = "ws"
    THEN RStrip(SubSeq(text, 1, Len(text) - 1)) ELSE text

Strip(text) == RStrip(LStrip(text))

\* lines 73-74: if text.startswith("```json"): text = text[7:]
DropFenceJson(text) ==
    IF text # <<>> /\ Head(text).tok = "fence_json" THEN Tail(text) ELSE text

\* lines 75-76: if text.startswith("```"): text = text[3:]
DropFence(text) ==
    IF text # <<>> /\ Head(text).tok = "fence" THEN Tail(text) ELSE text

\* lines 77-78: if text.endswith("```"): text = text[:-3]
DropTrailingFence(text) ==
    IF text # <<>> /\ text[Len(text)].tok = "fence"
    THEN SubSeq(text, 1, Len(text) - 1) ELSE text

\* lines 72-79
StripFences(text) ==
    Strip(DropTrailingFence(DropFence(DropFenceJson(Strip(text)))))

\* the outcome of a try body: a value, or an exception with its message
Return(value) == [exc |-> None, msg |-> None, value |-> value]
Raise(exc, msg, placeholder) == [exc |-> exc, msg |-> msg, value |-> placeholder]

\* json.loads: the document when the text is exactly one JSON document
JsonLoads(text) ==
    IF Len(text) = 1 /\ text[1].tok = "json"
    THEN Return(text[1].val)
    ELSE Raise("JSONDecodeError", "Expecting value", JNull)

\* queries[:num_queries], num_queries >= 1: a list or a str is sliced, a
\* dict, a number and None are not subscriptable by a slice
Slice(v, n) ==
    IF v.t = "array" THEN Return(JArray(SubSeq(v.items, 1, Min2(n, Len(v.items)))))
    ELSE IF v.t = "string" THEN Return(JString(SubSeq(v.chars, 1, Min2(n, Len(v.chars)))))
    ELSE Raise("TypeError", "not subscriptable", JNull)

\* lines 81-82, given the result of json.loads
SliceLoaded(loaded, n) ==
    IF loaded.exc # None THEN loaded ELSE Slice(loaded.value, n)

\* lines 63-84: the try body
GenerateBody(b, num_queries) ==
    IF b.kind = "client_error"
    THEN Raise("ValueError", "GEMINI_API_KEY not found in environment", JNull)
    ELSE IF b.kind = "raises"
    THEN Raise("ProviderError", "provider unreachable", JNull)
    ELSE IF b.success /\ b.text # <<>>
    THEN SliceLoaded(JsonLoads(StripFences(b.text)), num_queries)
    ELSE Raise("Exception", "AI query generation failed", JNull)

\* lines 88-92 without the final [:num_queries]
Fallback_NoSlice(company_name, industry, products, num_queries) ==
    JArray(<<QueryDict(Txt.Best
                \o (IF products # <<>> THEN products[1] ELSE Txt.Solution)
                \o Txt.For
                \o (IF industry # <<>> THEN industry ELSE Txt.Companies),
                "Product-Industry"),
      QueryDict(company_name \o Txt.Alternatives, "Competitive"),
      QueryDict(company_name, "Branded")>>)

\* lines 88-92: the rule-based queries.  industry and products are <<>>
\* when they are None or empty (the code tests their truth value).
Fallback(company_name, industry, products, num_queries) ==
    JArray(SubSeq(
        <<QueryDict(Txt.Best
                \o (IF products # <<>> THEN products[1] ELSE Txt.Solution)
                \o Txt.For
                \o (IF industry # <<>> THEN industry ELSE Txt.Companies),
                "Product-Industry"),
          QueryDict(company_name \o Txt.Alternatives, "Competitive"),
          QueryDict(company_name, "Branded")>>,
        1, Min2(num_queries, 3)))

\* a generator whose exceptions are not caught
ExceptFallback_Propagates(body, fallback) ==
    [exc |-> body.exc, msg |-> body.msg, value |-> body.value, path |-> "primary"]

\* lines 62 and 86: try ... except Exception: return the fallback
ExceptFallback(body, fallback) ==
    IF body.exc # None
    THEN [exc |-> None, msg |-> None, value |-> fallback, path |-> "fallback"]
    ELSE [exc |-> None, msg |-> None, value |-> body.value, path |-> "primary"]

\* lines 25-92
generate_hyperniche_queries(company_name, industry, products, num_queries, b) ==
    ExceptFallback(GenerateBody(b, num_queries),
                   Fallback(company_name, industry, products, num_queries))

QueryResult(query, has_response, company_mentioned, length, preview, error) ==
    [query |-> query, dimension |-> "", has_response |-> has_response,
     company_mentioned |-> company_mentioned,
     response_length |-> length,
     response_preview |-> preview, error |-> error]

NoResult == QueryResult(<<>>, FALSE, FALSE, 0, <<>>, None)

\* lines 98-115: the try body
ProbeBody(query, company_name, b) ==
    IF b.kind = "client_error"
    THEN Raise("ValueError", "GEMINI_API_KEY not found in environment", NoResult)
    ELSE IF b.kind = "raises"
    THEN Raise("ProviderError", "provider unreachable", NoResult)
    ELSE IF b.success /\ b.text # <<>>
    THEN Return(QueryResult(query, TRUE,
                            Contains(Lower(company_name), Lower(b.text)),
                            Len(b.text),
                            SubSeq(b.text, 1, Min2(200, Len(b.text))),
                            None))
    ELSE Return(QueryResult(query, FALSE, FALSE, 0, <<>>, None))

\* a probe whose exceptions are not caught
ExceptQueryResult_Propagates(body, query) == body

\* lines 97 and 116-122: try ... except Exception as e: return QueryResult(error=str(e))
ExceptQueryResult(body, query) ==
    IF body.exc # None
    THEN Return(QueryResult(query, FALSE, FALSE, 0, <<>>, body.msg))
    ELSE body

\* lines 95-122
test_query_with_gemini(query, company_name, b) ==
    ExceptQueryResult(ProbeBody(query, company_name, b), query)

\* the results in the order the probes completed
Gather_CompletionOrder(tasks, order) ==
    [k \in 1..Len(tasks) |-> tasks[order[k]].result]

\* line 161: asyncio.gather(*tasks) returns the results in the order of the
\* tasks, whatever the order in which they completed
Gather(tasks, order) ==
    [i \in 1..Len(tasks) |-> tasks[i].result]

(***************************************************************************)
(* Python floats are IEEE 754 binary64.  A positive float is held as its   *)
(* 53-bit significand mant (most significant bit first, mant[1] = 1) and   *)
(* the exponent exp of that bit: its value is mant * 2^(exp - 52).  Zero   *)
(* has the empty significand.  Every operation rounds its exact result to  *)
(* the nearest float, ties to the even significand.  The values here stay  *)
(* far from overflow and from the subnormal range.                         *)
(***************************************************************************)
Float(mant, exp) == [mant |-> mant, exp |-> exp]
FloatZero == Float(<<>>, 0)

Zeros(n) == [i \in 1..n |-> 0]

\* how many binary digits a non-negative integer has
RECURSIVE BitLength(_)
BitLength(n) == IF n = 0 THEN 0 ELSE 1 + BitLength(n \div 2)

\* n on width binary digits, most significant first
ToBits(n, width) == [i \in 1..width |-> (n \div 2^(width - i)) % 2]

\* the binary digits of a non-negative integer, without leading zeros
IntBits(n) == ToBits(n, BitLength(n))

\* the integer that a few binary digits write
RECURSIVE BitsValue(_)
BitsValue(bits) ==
    IF bits = <<>> THEN 0
    ELSE IF Len(bits) = 1 THEN bits[1]
    ELSE BitsValue(SubSeq(bits, 1, Len(bits) \div 2)) * 2^(Len(bits) - Len(bits) \div 2)
         + BitsValue(SubSeq(bits, Len(bits) \div 2 + 1, Len(bits)))

\* float(k) of a small integer, exact
FromInt(k) ==
    IF k = 0 THEN FloatZero
    ELSE Float(IntBits(k) \o Zeros(53 - BitLength(k)), BitLength(k) - 1)

\* the last digit that is 0 (there is one)
LastZero(bits) ==
    CHOOSE j \in 1..Len(bits) :
        bits[j] = 0 /\ \A i \in (j + 1)..Len(bits) : bits[i] = 1

\* bits + 1 on the same number of digits, for bits that are not all ones
Increment(bits) ==
    [i \in 1..Len(bits) |->
        IF i < LastZero(bits) THEN bits[i] ELSE IF i = LastZero(bits) THEN 1 ELSE 0]

\* round to nearest, ties to even: tail tells how the discarded part
\* compares with half a unit in the last place
RoundNearestEven(mant, exp, tail) ==
    IF tail = "above" \/ (tail = "half" /\ mant[53] = 1)
    THEN IF \A i \in 1..53 : mant[i] = 1
         THEN Float(<<1>> \o Zeros(52), exp + 1)
         ELSE Float(Increment(mant), exp)
    ELSE Float(mant, exp)

\* how the remainder r of a division by b compares with b / 2
RemainderTail(r, b) ==
    IF 2 * r > b THEN "above" ELSE IF 2 * r = b THEN "half" ELSE "below"

\* how discarded low digits compare with half a unit in the last place
DigitsTail(digits) ==
    IF digits = <<>> \/ digits[1] = 0 THEN "below"
    ELSE IF \A i \in 2..Len(digits) : digits[i] = 0 THEN "half"
    ELSE "above"

SquareMod(x, b) == (x * x) % b

\* 2^i mod b
RECURSIVE Pow2Mod(_, _)
Pow2Mod(i, b) ==
    IF i = 0 THEN 1 % b
    ELSE IF i % 2 = 0 THEN SquareMod(Pow2Mod(i \div 2, b), b)
    ELSE (2 * Pow2Mod(i - 1, b)) % b

\* the next count digits of r / b (0 <= r < b) after acc, and the
\* remainder: the remainder before digit i is r * 2^(i-1) mod b
DivBits(r, b, count, acc) ==
    [bits |-> acc \o [i \in 1..count |-> (2 * ((r * Pow2Mod(i - 1, b)) % b)) \div b],
     rem |-> (r * Pow2Mod(count, b)) % b]

\* a / b = (a' / b') * 2^e with b' <= a' < 2 b'
RECURSIVE Normalise(_, _, _)
Normalise(a, b, e) ==
    IF a < b THEN Normalise(2 * a, b, e - 1)
    ELSE IF a >= 2 * b THEN Normalise(a, 2 * b, e + 1)
    ELSE [a |-> a, b |-> b, e |-> e]

\* what is left of DivBits is rounded
RoundQuotient(d, b, exp) == RoundNearestEven(d.bits, exp, RemainderTail(d.rem, b))

TrueDivNormalised(nz) ==
    RoundQuotient(DivBits(nz.a - nz.b, nz.b, 52, <<1>>), nz.b, nz.e)

\* m / n of two small non-negative integers, n > 0 (int.__truediv__)
TrueDiv(m, n) ==
    IF m = 0 THEN FloatZero ELSE TrueDivNormalised(Normalise(m, n, 0))

\* the digits of bits * k + carry for a small integer k, w digits at a time
\* from the least significant end
RECURSIVE MulBits(_, _, _, _)
MulBits(bits, k, carry, w) ==
    IF Len(bits) <= w THEN IntBits(BitsValue(bits) * k + carry)
    ELSE MulBits(SubSeq(bits, 1, Len(bits) - w), k,
                 (BitsValue(SubSeq(bits, Len(bits) - w + 1, Len(bits))) * k + carry) \div 2^w,
                 w)
         \o ToBits((BitsValue(SubSeq(bits, Len(bits) - w + 1, Len(bits))) * k + carry) % 2^w,
                   w)

\* the exact product digits are rounded to 53
RoundProduct(product, exp) ==
    RoundNearestEven(SubSeq(product, 1, 53), exp + Len(product) - 53,
                     DigitsTail(SubSeq(product, 54, Len(product))))

\* x * k for a float x and a small positive integer k (k is converted to
\* float(k) exactly)
FloatMulInt(x, k) ==
    IF x.mant = <<>> THEN FloatZero
    ELSE RoundProduct(MulBits(x.mant, k, 0, 16), x.exp)

\* the integer quotient digits of bits / k, leading zeros included, and the
\* remainder, w digits at a time from the most significant end; r is the
\* remainder so far
RECURSIVE LongDiv(_, _, _, _, _)
LongDiv(bits, k, r, acc, w) ==
    IF bits = <<>> THEN [bits |-> acc, rem |-> r]
    ELSE IF Len(bits) <= w
    THEN [bits |-> acc \o ToBits((r * 2^Len(bits) + BitsValue(bits)) \div k, Len(bits)),
          rem |-> (r * 2^Len(bits) + BitsValue(bits)) % k]
    ELSE LongDiv(SubSeq(bits, w + 1, Len(bits)), k,
                 (r * 2^w + BitsValue(SubSeq(bits, 1, w))) % k,
                 acc \o ToBits((r * 2^w + BitsValue(SubSeq(bits, 1, w))) \div k, w),
                 w)

\* the digits from the first 1 on
StripLeadingZeros(bits) ==
    IF \A i \in 1..Len(bits) : bits[i] = 0 THEN <<>>
    ELSE SubSeq(bits, CHOOSE j \in 1..Len(bits) :
                          bits[j] = 1 /\ \A i \in 1..(j - 1) : bits[i] = 0,
                Len(bits))

\* the quotient is continued to 53 significant digits and rounded
ContinueQuotient(q, rem, k, exp) ==
    RoundQuotient(DivBits(rem, k, 53 - Len(q), q), k, exp - (53 - Len(q)))

FloatDivLong(d, k, exp) == ContinueQuotient(StripLeadingZeros(d.bits), d.rem, k, exp)

\* x / k for a float x and a small integer k >= 2
FloatDivInt(x, k) ==
    IF x.mant = <<>> THEN FloatZero
    ELSE FloatDivLong(LongDiv(x.mant, k, 0, <<>>, 16), k, x.exp)

\* x <= y
FloatLeq(x, y) ==
    IF x.mant = <<>> THEN TRUE
    ELSE IF y.mant = <<>> THEN FALSE
    ELSE IF x.exp # y.exp THEN x.exp < y.exp
    ELSE \/ x.mant = y.mant
         \/ \E i \in 1..53 : /\ SubSeq(x.mant, 1, i - 1) = SubSeq(y.mant, 1, i - 1)
                             /\ x.mant[i] < y.mant[i]

\* min(a, b): b unless a < b
FloatMin(a, b) == IF FloatLeq(b, a) THEN b ELSE a

CountIf(results, field) ==
    Cardinality({i \in 1..Len(results) : results[i][field]})

\* line 172: min(10.0, mention_rate / 10)
QualityScore(mention_rate) == FloatMin(FromInt(10), FloatDivInt(mention_rate, 10))

\* the mention rate taken for the presence rate
Rate_OfResponses(count, results) ==
    IF results # <<>>
    THEN FloatMulInt(TrueDiv(CountIf(results, "has_response"), Len(results)), 100)
    ELSE FloatZero

\* lines 167-168: (count / len(results) * 100) if results else 0
Rate(count, results) ==
    IF results # <<>>
    THEN FloatMulInt(TrueDiv(count, Len(results)), 100)
    ELSE FloatZero

\* the metrics, given the two rates
MetricsOf(mentions, mention_rate, presence_rate) ==
    [mentions |-> mentions,
     visibility |-> mention_rate,
     presence_rate |-> presence_rate,
     quality_score |-> QualityScore(mention_rate)]

\* lines 165-172
Aggregate(results) ==
    MetricsOf(CountIf(results, "company_mentioned"),
              Rate(CountIf(results, "company_mentioned"), results),
              Rate(CountIf(results, "has_response"), results))

\* the output with ai_calls counting the probes only
MentionsStageOutput_ProbesOnly(company_name, queries_generated, results, metrics, calls) ==
    [company_name |-> company_name,
     queries_generated |-> queries_generated,
     query_results |-> results,
     visibility |-> metrics.visibility,
     mentions |-> metrics.mentions,
     presence_rate |-> metrics.presence_rate,
     quality_score |-> metrics.quality_score,
     ai_calls |-> Len(results)]

\* lines 178-188
MentionsStageOutput(company_name, queries_generated, results, metrics, calls) ==
    [company_name |-> company_name,
     queries_generated |-> queries_generated,
     query_results |-> results,
     visibility |-> metrics.visibility,
     mentions |-> metrics.mentions,
     presence_rate |-> metrics.presence_rate,
     quality_score |-> metrics.quality_score,
     ai_calls |-> calls]

\* what the provider may answer to the generation call
JsonDocuments ==
    {JArray([k \in 1..n |-> GeneratedQuery(k)]) : n \in 0..MaxArrayLen}
    \cup {JArray(<<GeneratedQuery(1), NoQueryDict>>),
          JString(<<"h", "i">>), JString(<<>>), JObject, JNumber, JNull}

GenerationTexts ==
    {<<>>, <<Ws>>, <<Junk>>}
    \cup UNION {{<<Json(v)>>,
                 <<Ws, Json(v), Ws>>,
                 <<FenceJson, Ws, Json(v), Ws, Fence>>,
                 <<Fence, Ws, Json(v), Ws, Fence, Ws>>,
                 <<FenceJson, Ws, Json(v)>>,
                 <<Json(v), Junk>>} : v \in JsonDocuments}

\* one call of the provider: the client cannot be constructed, the call
\* raises, or it returns {success, response, error}; a response that reports
\* a failure has success False, an empty text and the error message
\* (shared/gemini_client.py, lines 89-95)
Behaviour(kind, success, text) ==
    [kind |-> kind, success |-> success, text |-> text,
     error |-> IF kind = "response" /\ ~success THEN "429 Quota exceeded" ELSE None]

GenerationBehaviours ==
    {Behaviour("client_error", FALSE, <<>>), Behaviour("raises", FALSE, <<>>)}
    \cup {Behaviour("response", FALSE, <<>>)}
    \cup {Behaviour("response", TRUE, t) : t \in GenerationTexts}

\* what the provider may answer to a probe
ProbeBehaviours ==
    {Behaviour("client_error", FALSE, <<>>), Behaviour("raises", FALSE, <<>>),
     Behaviour("response", FALSE, <<>>), Behaviour("response", TRUE, <<>>),
     Behaviour("response", TRUE, TextMention),
     Behaviour("response", TRUE, TextNoMention)}

MentionsInputs ==
    [company_name : {CompanyName},
     industry : {<<>>, Txt.SaaS},
     products : {<<>>, <<Txt.CRM>>},
     num_queries : 1..MaxNumQueries]

Task(query, status, result) == [query |-> query, status |-> status, result |-> result]

MentionsIdle ==
    /\ m_pc = "idle"
    /\ m_input = [company_name |-> <<>>, industry |-> <<>>, products |-> <<>>,
                  num_queries |-> 0]
    /\ queries = JNull
    /\ gen_path = None
    /\ probes = <<>>
    /\ completed = <<>>
    /\ ai_calls = 0
    /\ mentions_output = <<>>

MentionsInit ==
    /\ m_pc = "start"
    /\ m_input \in MentionsInputs
    /\ queries = JNull
    /\ gen_path = None
    /\ probes = <<>>
    /\ completed = <<>>
    /\ ai_calls = 0
    /\ mentions_output = <<>>

\* lines 148-155: queries = await generate_hyperniche_queries(...); ai_calls += 1
GenerateQueries ==
    /\ m_pc = "start"
    /\ \E b \in GenerationBehaviours :
        LET r == generate_hyperniche_queries(m_input.company_name, m_input.industry,
                                             m_input.products, m_input.num_queries, b)
        IN  IF r.exc # None
            THEN /\ m_pc' = "raised"
                 /\ gen_path' = r.exc
                 /\ UNCHANGED <<queries, ai_calls>>
            ELSE /\ m_pc' = "generated"
                 /\ gen_path' = r.path
                 /\ queries' = r.value
                 /\ ai_calls' = ai_calls + 1
    /\ UNCHANGED <<m_input, probes, completed, mentions_output>>
    /\ UNCHANGED notMentions

\* line 160 evaluates q["query"] for q in queries: a list of dicts that all
\* have the key, or an exception (KeyError for a dict without it, TypeError
\* for the characters of a str; an empty str passes line 160 and fails the
\* validation of queries_generated at line 178)
QueriesUsable(qs) ==
    /\ qs.t = "array"
    /\ \A i \in 1..Len(qs.items) : "query" \in qs.items[i].keys

\* lines 160-161: the probes are created and gathered
IssueProbes ==
    /\ m_pc = "generated"
    /\ IF QueriesUsable(queries)
       THEN /\ probes' = [i \in 1..Len(queries.items) |->
                              Task(queries.items[i].query, "running", NoResult)]
            /\ m_pc' = "probing"
       ELSE /\ probes' = <<>>
            /\ m_pc' = "raised"
    /\ UNCHANGED <<m_input, queries, gen_path, completed, ai_calls, mentions_output>>
    /\ UNCHANGED notMentions

\* one probe completes (lines 95-122), in any order among the probes
ProbeCompletes(i) ==
    /\ m_pc = "probing"
    /\ probes[i].status = "running"
    /\ \E b \in ProbeBehaviours :
        LET r == test_query_with_gemini(probes[i].query, m_input.company_name, b)
        IN  probes' = [probes EXCEPT ![i] =
                Task(@.query, IF r.exc # None THEN "raised" ELSE "returned", r.value)]
    /\ completed' = Append(completed, i)
    /\ UNCHANGED <<m_pc, m_input, queries, gen_path, ai_calls, mentions_output>>
    /\ UNCHANGED notMentions

\* lines 161-188: gather returns when every probe has returned, or raises
\* the exception of a probe that raised; then the metrics and the output
GatherAndReturn ==
    /\ m_pc = "probing"
    /\ IF \E i \in 1..Len(probes) : probes[i].status = "raised"
       THEN /\ m_pc' = "raised"
            /\ UNCHANGED <<ai_calls, mentions_output>>
       ELSE /\ \A i \in 1..Len(probes) : probes[i].status = "returned"
            /\ m_pc' = "done"
            /\ ai_calls' = ai_calls + Len(probes)
            /\ mentions_output' =
                 <<MentionsStageOutput(m_input.company_name, queries.items,
                                       Gather(probes, completed),
                                       Aggregate(Gather(probes, completed)),
                                       ai_calls + Len(probes))>>
    /\ UNCHANGED <<m_input, queries, gen_path, probes, completed>>
    /\ UNCHANGED notMentions

MentionsNext ==
    \/ GenerateQueries
    \/ IssueProbes
    \/ \E i \in 1..Len(probes) : ProbeCompletes(i)
    \/ GatherAndReturn

-----------------------------------------------------------------------------
(***************************************************************************)
(* The metrics of run_stage_mentions (lines 164-172) on every list of      *)
(* results up to MaxResults: a result with a mention, a result with a      *)
(* response and no mention, a result without a response, a result with an  *)
(* error.                                                                  *)
(***************************************************************************)
\* the longest list of results the metrics are computed on
MaxResults == 10

WithMention == test_query_with_gemini(<<"q">>, CompanyName,
                                      Behaviour("response", TRUE, TextMention)).value
WithoutMention == test_query_with_gemini(<<"q">>, CompanyName,
                                         Behaviour("response", TRUE, TextNoMention)).value
WithoutResponse == test_query_with_gemini(<<"q">>, CompanyName,
                                          Behaviour("raises", FALSE, <<>>)).value

Repeat(r, n) == [i \in 1..n |-> r]

Reverse(seq) == [i \in 1..Len(seq) |-> seq[Len(seq) + 1 - i]]

\* every number of results with a mention, with a response and no mention
\* and without a response, in two orders
ResultLists ==
    UNION {{Repeat(WithMention, a) \o Repeat(WithoutMention, b) \o Repeat(WithoutResponse, c),
            Reverse(Repeat(WithMention, a) \o Repeat(WithoutMention, b)
                    \o Repeat(WithoutResponse, c))} :
           <<a, b, c>> \in {t \in (0..MaxResults) \X (0..MaxResults) \X (0..MaxResults) :
                              t[1] + t[2] + t[3] <= MaxResults}}

NoMetrics == MetricsOf(-1, FloatZero, FloatZero)

AggregateIdle ==
    /\ a_results = <<>>
    /\ a_metrics = NoMetrics

AggregateInit ==
    /\ a_results \in ResultLists
    /\ a_metrics = NoMetrics

\* lines 165-172 on the gathered results
AggregateResults ==
    /\ a_metrics = NoMetrics
    /\ a_metrics' = Aggregate(a_results)
    /\ UNCHANGED a_results
    /\ UNCHANGED notAggregate

AggregateNext == AggregateResults

-----------------------------------------------------------------------------
(***************************************************************************)
(* pipeline/run_pipeline.py: run_pipeline                                  *)
(*                                                                         *)
(* The two branches are coroutines gathered at line 154.  A branch ends in *)
(* one of three ways: it returns the model_dump() dict of its stage, it    *)
(* raises an Exception, or it ends in asyncio.CancelledError, which is a   *)
(* BaseException and no Exception; with return_exceptions=True gather      *)
(* puts either kind of exception object in its result list.                *)
(***************************************************************************)
\* the truth value of an Optional[str]
Truthy(s) == s # None /\ s # ""

PipelineInputs ==
    [url : {None, "", "https://example.com"},
     company_name : {None, "", "Acme"},
     run_health : BOOLEAN,
     run_mentions : BOOLEAN]

\* what run_health_check may return: HealthStageOutput.model_dump()
HealthDumps ==
    {FetchFailureOutput([error |-> "Connection refused",
                         final_url |-> "https://example.com",
                         js_rendered |-> FALSE]),
     ScoredOutput([error |-> None, final_url |-> "https://example.com",
                   js_rendered |-> TRUE],
                  <<Passing("https", "technical", Msg.Ok),
                    Failing("title_tag", "technical", "error", Msg.TitleMissing)>>)}

\* what run_mentions_check may return: MentionsStageOutput.model_dump()
MentionsDumps ==
    {MentionsStageOutput(CompanyName, <<QueryDict(CompanyName, "Branded")>>,
                         <<r>>, Aggregate(<<r>>), 2) :
        r \in {WithMention, WithoutResponse}}

NoDump == [url |-> None]

\* a branch: whether it was started, how it ended, what it left
Branch(started, kind, msg, value) ==
    [started |-> started, kind |-> kind, msg |-> msg, value |-> value]

NotStarted == Branch(FALSE, "none", None, NoDump)
Running == Branch(TRUE, "running", None, NoDump)

\* str(e) of the exception a branch raised
BranchErrors == {"Connection timed out", "Quota exceeded", ""}

BranchEndings(dumps) ==
    {Branch(TRUE, "dict", None, d) : d \in dumps}
    \cup {Branch(TRUE, "exception", m, NoDump) : m \in BranchErrors}
    \cup {Branch(TRUE, "cancelled", "", NoDump)}

\* HealthCheckOutput(**health_result): the fields of HealthCheckOutput
\* (shared/models.py); band_color, fetch_time_ms and js_rendered are extra
\* keys and are dropped
HealthCheckOutput(d) ==
    [url |-> d.url, score |-> d.score, grade |-> d.grade, band |-> d.band,
     checks_passed |-> d.checks_passed, checks_failed |-> d.checks_failed,
     issues |-> d.issues, tier_details |-> d.tier_details]

\* MentionsCheckOutput(**mentions_result): ai_calls is an extra key
MentionsCheckOutput(d) ==
    [company_name |-> d.company_name, queries_generated |-> d.queries_generated,
     query_results |-> d.query_results, visibility |-> d.visibility,
     mentions |-> d.mentions, presence_rate |-> d.presence_rate,
     quality_score |-> d.quality_score]

\* the locals of run_pipeline, lines 129-131
Locals(health_result, mentions_result, error, aborted) ==
    [health_result |-> health_result, mentions_result |-> mentions_result,
     error |-> error, aborted |-> aborted]

\* lines 157-161 keeping the message of the last exception instead of the
\* first
LoopStep_LastError(acc, name, task) ==
    IF acc.aborted \/ ~task.started THEN acc
    ELSE IF task.kind = "exception"
    THEN [acc EXCEPT !.error = task.msg]
    ELSE IF name = "health"
    THEN [acc EXCEPT !.health_result = task]
    ELSE [acc EXCEPT !.mentions_result = task]

\* lines 157-167 for one task: an Exception is logged and the first one
\* kept as error; anything else becomes the branch's result and its .get
\* is called for the log line, which a CancelledError does not have: the
\* AttributeError leaves the loop for the handler of lines 169-171
LoopStep(acc, name, task) ==
    IF acc.aborted \/ ~task.started THEN acc
    ELSE IF task.kind = "exception"
    THEN [acc EXCEPT !.error = IF @ = None THEN task.msg ELSE @]
    ELSE IF task.kind = "dict"
    THEN IF name = "health"
         THEN [acc EXCEPT !.health_result = task]
         ELSE [acc EXCEPT !.mentions_result = task]
    ELSE IF name = "health"
         THEN [acc EXCEPT !.health_result = task, !.aborted = TRUE,
                          !.error = "'CancelledError' object has no attribute 'get'"]
         ELSE [acc EXCEPT !.mentions_result = task, !.aborted = TRUE,
                          !.error = "'CancelledError' object has no attribute 'get'"]

\* lines 153-171: the results in the order of tasks, health before mentions
Collect(ht, mt) ==
    LoopStep(LoopStep(Locals(NotStarted, NotStarted, None, FALSE),
                      "health", ht), "mentions", mt)

\* X(**result) if result else None: None stays None, a dict is converted,
\* and a CancelledError, which is true and no mapping, is a TypeError
ConversionRaises(result) == result.kind = "cancelled"

PipelineOutput(locals) ==
    [health |-> IF locals.health_result.kind = "dict"
                THEN <<HealthCheckOutput(locals.health_result.value)>> ELSE <<>>,
     mentions |-> IF locals.mentions_result.kind = "dict"
                  THEN <<MentionsCheckOutput(locals.mentions_result.value)>> ELSE <<>>,
     error |-> locals.error]

PipelineIdle ==
    /\ p_pc = "idle"
    /\ p_input = [url |-> None, company_name |-> None,
                  run_health |-> FALSE, run_mentions |-> FALSE]
    /\ health_task = NotStarted
    /\ mentions_task = NotStarted
    /\ p_ended = <<>>
    /\ p_output = <<>>

PipelineInit ==
    /\ p_pc = "start"
    /\ p_input \in PipelineInputs
    /\ health_task = NotStarted
    /\ mentions_task = NotStarted
    /\ p_ended = <<>>
    /\ p_output = <<>>

\* lines 133-154: the tasks are created and gathered
CreateTasks ==
    /\ p_pc = "start"
    /\ health_task' = IF p_input.run_health /\ Truthy(p_input.url)
                      THEN Running ELSE NotStarted
    /\ mentions_task' = IF p_input.run_mentions /\ Truthy(p_input.company_name)
                        THEN Running ELSE NotStarted
    /\ p_pc' = "gathering"
    /\ UNCHANGED <<p_input, p_ended, p_output>>
    /\ UNCHANGED notPipeline

\* run_health_check ends (lines 52-69)
HealthBranchEnds ==
    /\ p_pc = "gathering"
    /\ health_task.kind = "running"
    /\ health_task' \in BranchEndings(HealthDumps)
    /\ p_ended' = Append(p_ended, "health")
    /\ UNCHANGED <<p_pc, p_input, mentions_task, p_output>>
    /\ UNCHANGED notPipeline

\* run_mentions_check ends (lines 72-104)
MentionsBranchEnds ==
    /\ p_pc = "gathering"
    /\ mentions_task.kind = "running"
    /\ mentions_task' \in BranchEndings(MentionsDumps)
    /\ p_ended' = Append(p_ended, "mentions")
    /\ UNCHANGED <<p_pc, p_input, health_task, p_output>>
    /\ UNCHANGED notPipeline

\* the return of lines 184-189, given the locals after lines 153-171
ReturnOf(locals) ==
    IF ConversionRaises(locals.health_result) \/ ConversionRaises(locals.mentions_result)
    THEN /\ p_pc' = "raised"
         /\ p_output' = <<>>
    ELSE /\ p_pc' = "done"
         /\ p_output' = <<PipelineOutput(locals)>>

\* lines 153-189: gather returns when no branch is running
CollectAndReturn ==
    /\ p_pc = "gathering"
    /\ health_task.kind # "running"
    /\ mentions_task.kind # "running"
    /\ ReturnOf(Collect(health_task, mentions_task))
    /\ UNCHANGED <<p_input, health_task, mentions_task, p_ended>>
    /\ UNCHANGED notPipeline

PipelineNext ==
    \/ CreateTasks
    \/ HealthBranchEnds
    \/ MentionsBranchEnds
    \/ CollectAndReturn

-----------------------------------------------------------------------------
(***************************************************************************)
(* The scoring engine called on its own (shared/scoring.py): lines 111-114 *)
(* of run_stage_health on any list of check results, with any weights and  *)
(* with checks missing from the list, and the grade and the band of any    *)
(* score.                                                                  *)
(***************************************************************************)
\* the score_impact weights the engine is called with
Weights == {1, 5, 20, 23}

Weighted(r, w) == [r EXCEPT !.score_impact = w]

\* the eleven checks the tiers look up, all passing
AllPassing ==
    <<Passing("title_tag", "technical", Msg.TitleOk),
      Passing("https", "technical", Msg.Ok),
      Passing("meta_description", "technical", Msg.MetaOk),
      Passing("content_word_count", "technical", Msg.Ok),
      Passing("robots_meta", "technical", Msg.Indexable),
      Passing("org_schema_completeness", "structured_data", Msg.Org100),
      Passing("sameas_links", "authority", Msg.Ok),
      Passing("gptbot_access", "ai_crawler", Msg.Ok),
      Passing("claude_access", "ai_crawler", Msg.Ok),
      Passing("perplexitybot_access", "ai_crawler", Msg.Ok),
      Passing("ccbot_access", "ai_crawler", Msg.Ok)>>

\* every result one of these checks may be
CheckOutcomes ==
    TitleTagResults \cup HttpsResults \cup MetaDescriptionResults
    \cup ContentWordCountResults \cup RobotsMetaResults \cup OrgSchemaResults
    \cup SameAsResults \cup UNION {CrawlerResults(c) : c \in ai_crawler_checks}

\* AllPassing with weight u, and the k-th check replaced by f with weight w
WeightedLists ==
    {[i \in 1..Len(AllPassing) |->
         IF i = x[1] THEN Weighted(x[2], x[4]) ELSE Weighted(AllPassing[i], x[3])] :
     x \in {y \in (1..Len(AllPassing)) \X CheckOutcomes \X Weights \X Weights :
               y[2].check = AllPassing[y[1]].check}}

\* every combination of the technical results, and every combination of the
\* robots_meta, schema, sameAs and crawler results, at the default weights
TierLists ==
    {<<t, h, m, c, AllPassing[5], o, sa>> \o SubSeq(AllPassing, 8, 11) :
        t \in TitleTagResults, h \in HttpsResults, m \in MetaDescriptionResults,
        c \in ContentWordCountResults, o \in OrgSchemaResults, sa \in SameAsResults}
    \cup {SubSeq(AllPassing, 1, 4) \o <<r, o, sa>> \o cr :
            r \in RobotsMetaResults, o \in OrgSchemaResults, sa \in SameAsResults,
            cr \in {x \in CrawlerFamily : x[2].check = "claude_access"}}

\* the empty list and the lists of one check
ShortLists == {<<>>} \cup {<<r>> : r \in CheckOutcomes}

\* a check no tier looks up, passing or failing with any severity, with a
\* weight that may be zero
BaseChecks ==
    {CheckResult("h1_tag", "technical", x[1], x[2], Msg.Ok, x[3]) :
        x \in BOOLEAN \X {"pass", "notice", "warning", "error"} \X {0, 1, 3}}

\* the lists of one or two such checks
BaseLists == {<<a>> : a \in BaseChecks} \cup {<<a, b>> : a, b \in BaseChecks}

IssueLists == WeightedLists \cup TierLists \cup ShortLists \cup BaseLists

\* the scores, in tenths, from 0.0 to 100.0
Scores == 0..(10 * 100)

ScoringCall(fn, issues, score) == [fn |-> fn, issues |-> issues, score |-> score]

ScoringCalls ==
    {ScoringCall("calculate_tiered_score", l, 0) : l \in IssueLists}
    \cup {ScoringCall("calculate_grade", <<>>, x) : x \in Scores}

\* the page whose check results are scored
PageFetched == [error |-> None, final_url |-> "https://example.com", js_rendered |-> TRUE]

\* calculate_grade(score) and calculate_visibility_band(score)
GradeAndBand(score) ==
    [score |-> score,
     grade |-> calculate_grade(score),
     band |-> calculate_visibility_band(score)[1],
     band_color |-> calculate_visibility_band(score)[2]]

\* issues without its i-th element
WithoutCheck(issues, i) == SubSeq(issues, 1, i - 1) \o SubSeq(issues, i + 1, Len(issues))

\* the check identifiers the three tier evaluations look up
TierLookups ==
    ai_crawler_checks
    \cup {"robots_meta", "org_schema_completeness", "title_tag", "https",
          "sameas_links", "meta_description", "content_word_count"}

ScoringIdle ==
    /\ s_call = ScoringCall("none", <<>>, 0)
    /\ s_result = <<>>
    /\ s_base = <<>>

ScoringInit ==
    /\ s_call \in ScoringCalls
    /\ s_result = <<>>
    /\ s_base = <<>>

\* final_score, tier_details = calculate_tiered_score(issues), then the grade
\* and the band of final_score
ScoreIssues ==
    /\ s_call.fn = "calculate_tiered_score"
    /\ s_result = <<>>
    /\ s_result' = <<ScoredOutput(PageFetched, s_call.issues)>>
    /\ s_base' = <<calculate_base_score(s_call.issues)>>
    /\ UNCHANGED s_call
    /\ UNCHANGED notScoring

\* calculate_grade(score) and calculate_visibility_band(score)
GradeScore ==
    /\ s_call.fn = "calculate_grade"
    /\ s_result = <<>>
    /\ s_result' = <<GradeAndBand(s_call.score)>>
    /\ UNCHANGED <<s_call, s_base>>
    /\ UNCHANGED notScoring

\* the same list is scored again without its i-th check, a check that the
\* tiers look up and that was failing
ScoreWithoutCheck(i) ==
    /\ s_call.fn = "calculate_tiered_score"
    /\ Len(s_result) = 1
    /\ s_call.issues[i].check \in TierLookups
    /\ ~s_call.issues[i].passed
    /\ s_call' = [s_call EXCEPT !.issues = WithoutCheck(@, i)]
    /\ s_result' = Append(s_result, ScoredOutput(PageFetched, s_call'.issues))
    /\ s_base' = Append(s_base, calculate_base_score(s_call'.issues))
    /\ UNCHANGED notScoring

ScoringNext ==
    \/ ScoreIssues
    \/ GradeScore
    \/ \E i \in 1..Len(s_call.issues) : ScoreWithoutCheck(i)

-----------------------------------------------------------------------------
(***************************************************************************)
(* generate_hyperniche_queries and test_query_with_gemini called on their  *)
(* own (stage mentions/stage_mentions.py), each up to MaxCalls times with  *)
(* the same arguments; the provider behaves as it likes at each call.      *)
(***************************************************************************)
\* the largest num_queries generate_hyperniche_queries is called with
MaxRequested == 5
\* how many times a function is called with the same arguments
MaxCalls == 2

\* a response longer than the 200 characters of the preview, with the
\* company name after the 200th
TextLong == [i \in 1..240 |-> IF i \in 231..234 THEN CompanyName[i - 230] ELSE "."]

OtherCompany == <<"g","l","o","b","e","x">>

QueryCall(fn, company_name, industry, products, num_queries, query) ==
    [fn |-> fn, company_name |-> company_name, industry |-> industry,
     products |-> products, num_queries |-> num_queries, query |-> query]

QueryCalls ==
    {QueryCall("generate_hyperniche_queries", CompanyName, i, p, n, <<>>) :
        i \in {<<>>, Txt.SaaS}, p \in {<<>>, <<Txt.CRM>>}, n \in 1..MaxRequested}
    \cup {QueryCall("test_query_with_gemini", c, <<>>, <<>>, 0, q) :
            c \in {CompanyName, OtherCompany, <<>>},
            q \in {CompanyName \o Txt.Alternatives, <<"q", "1">>}}

\* what the provider may answer to the generation call: the failures, text
\* that is no JSON, and JSON with and without fences
CallGenerations ==
    {Behaviour("client_error", FALSE, <<>>), Behaviour("raises", FALSE, <<>>),
     Behaviour("response", FALSE, <<>>)}
    \cup {Behaviour("response", TRUE, t) :
            t \in {<<>>, <<Ws>>, <<Junk>>, <<Json(JNull)>>,
                   <<Json(JArray(<<GeneratedQuery(1)>>)), Junk>>,
                   <<Json(JArray([k \in 1..MaxArrayLen |-> GeneratedQuery(k)]))>>,
                   <<FenceJson, Ws, Json(JArray(<<GeneratedQuery(1)>>)), Ws, Fence>>}}

\* what the provider may answer to a probe
CallProbes == ProbeBehaviours \cup {Behaviour("response", TRUE, TextLong)}

\* one call: how the provider behaved and what the function returned
Called(b, ret) == [b |-> b, ret |-> ret]

QueriesIdle ==
    /\ q_call = QueryCall("none", <<>>, <<>>, <<>>, 0, <<>>)
    /\ q_result = <<>>

QueriesInit ==
    /\ q_call \in QueryCalls
    /\ q_result = <<>>

\* await generate_hyperniche_queries(company_name, industry, products, ..., num_queries)
CallGenerate ==
    /\ q_call.fn = "generate_hyperniche_queries"
    /\ Len(q_result) < MaxCalls
    /\ \E b \in CallGenerations :
        q_result' = Append(q_result,
            Called(b, generate_hyperniche_queries(q_call.company_name, q_call.industry,
                                                  q_call.products, q_call.num_queries, b)))
    /\ UNCHANGED q_call
    /\ UNCHANGED notQueries

\* await test_query_with_gemini(query, company_name)
CallProbe ==
    /\ q_call.fn = "test_query_with_gemini"
    /\ Len(q_result) < MaxCalls
    /\ \E b \in CallProbes :
        q_result' = Append(q_result,
            Called(b, test_query_with_gemini(q_call.query, q_call.company_name, b)))
    /\ UNCHANGED q_call
    /\ UNCHANGED notQueries

QueriesNext ==
    \/ CallGenerate
    \/ CallProbe

-----------------------------------------------------------------------------
(***************************************************************************)
(* OpenRouterClient (aeo-checks/openrouter_client.py): the tool-calling    *)
(* loop complete_with_tools and the retry loop generate_with_tools around  *)
(* it, one provider call, one batch of tool executions and one backoff     *)
(* sleep at a time.                                                        *)
(***************************************************************************)
\* the largest max_iterations and max_retries a call is given
MaxIterations == 2
MaxRetries == 3

Answer == "Paris is the capital of France"

\* one await of client.chat.completions.create: it raises, or returns a
\* completion without choices, or one whose first choice has this content
\* and this many tool calls
ProviderResponse(kind, content, tool_calls, err) ==
    [kind |-> kind, content |-> content, tool_calls |-> tool_calls, err |-> err]

ProviderResponses ==
    {ProviderResponse("raises", None, 0, m) :
        m \in {"Request timed out", "Rate limit exceeded"}}
    \cup {ProviderResponse("no_choices", None, 0, None)}
    \cup {ProviderResponse("completion", c, 0, None) : c \in {Answer, "", None}}
    \cup {ProviderResponse("completion", c, 1, None) : c \in {Answer, ""}}

\* the dict complete_with_tools returns: the completion and the keys the
\* loop adds to it (<<>>: the key is not set)
ToolLoopResult(response, tool_executions, iterations, max_iterations_reached) ==
    [kind |-> response.kind, content |-> response.content,
     tool_calls |-> response.tool_calls,
     tool_executions |-> tool_executions,
     iterations |-> iterations,
     max_iterations_reached |-> max_iterations_reached]

\* the dict generate_with_tools returns (retries_exhausted <<>>: not set)
Generated(content, result, retry_count, retries_exhausted) ==
    [content |-> content,
     tool_executions |->
        IF result.tool_executions = <<>> THEN 0 ELSE result.tool_executions[1],
     iterations |-> IF result.iterations = <<>> THEN 1 ELSE result.iterations[1],
     max_iterations_reached |->
        IF result.max_iterations_reached = <<>> THEN FALSE
        ELSE result.max_iterations_reached[1],
     retry_count |-> retry_count,
     retries_exhausted |-> retries_exhausted]

\* an attempt of generate_with_tools that is over
Attempt(effort, slept, outcome, content, err) ==
    [effort |-> effort, slept |-> slept, outcome |-> outcome,
     content |-> content, err |-> err]

OpenRouterCall(fn, model, tools, max_iterations, max_retries, reasoning_effort) ==
    [fn |-> fn, model |-> model, tools |-> tools, max_iterations |-> max_iterations,
     max_retries |-> max_retries, reasoning_effort |-> reasoning_effort]

OpenRouterCalls ==
    {OpenRouterCall("complete_with_tools", "google/gemini-3-pro-preview", t, i, 1, None) :
        t \in BOOLEAN, i \in 1..MaxIterations}
    \cup {OpenRouterCall("generate_with_tools", m, t, i, r, e) :
            m \in {"google/gemini-3-pro-preview", "openai/gpt-4o-mini"},
            t \in BOOLEAN, i \in 1..MaxIterations, r \in 1..MaxRetries,
            e \in {None, "high"}}

\* "gemini-3" in model
IsGemini3(model) == model = "google/gemini-3-pro-preview"

\* the locals of the two loops
LoopState(attempt, effort, slept, iteration, calls, tool_executions, result, last_result, last_error) ==
    [attempt |-> attempt, effort |-> effort, slept |-> slept, iteration |-> iteration,
     calls |-> calls, tool_executions |-> tool_executions, result |-> result,
     last_result |-> last_result, last_error |-> last_error]

\* where a call stands: its position, its locals, the attempts that are
\* over, and the dict returned or the error raised
Control(pc, loop, log, ret) == [pc |-> pc, loop |-> loop, log |-> log, ret |-> ret]

\* after the last attempt, the last error raised whenever there is one
Exhausted_RaisesLastError(call, loop, log) ==
    IF loop.last_error # None
    THEN Control("raised", loop, log, <<[error |-> loop.last_error]>>)
    ELSE Control("done", loop, log,
                 <<Generated(loop.last_result[1].content, loop.last_result[1],
                             call.max_retries - 1, <<TRUE>>)>>)

\* lines 470-483: after the last attempt
Exhausted(call, loop, log) ==
    IF loop.last_error # None /\ loop.last_result = <<>>
    THEN Control("raised", loop, log, <<[error |-> loop.last_error]>>)
    ELSE Control("done", loop, log,
                 <<Generated(loop.last_result[1].content, loop.last_result[1],
                             call.max_retries - 1, <<TRUE>>)>>)

\* the next turn of the for loop of line 428, the attempt being over
NextAttempt(call, loop, log) ==
    IF loop.attempt + 1 < call.max_retries
    THEN Control("attempt", [loop EXCEPT !.attempt = @ + 1], log, <<>>)
    ELSE Exhausted(call, loop, log)

\* lines 465-469: the attempt raised
AttemptRaised(call, loop, log, err) ==
    IF loop.attempt < call.max_retries - 1
    THEN Control("backoff", [loop EXCEPT !.last_error = err],
                 Append(log, Attempt(loop.effort, loop.slept, "raised", None, err)),
                 <<>>)
    ELSE Exhausted(call, [loop EXCEPT !.last_error = err, !.slept = 0],
                   Append(log, Attempt(loop.effort, loop.slept, "raised", None, err)))

\* lines 447-463: complete_with_tools returned result to generate_with_tools
AttemptReturned(call, loop, log, result) ==
    IF result.kind = "no_choices"
    THEN AttemptRaised(call, loop, log, "list index out of range")
    ELSE IF Truthy(result.content)
    THEN Control("done", [loop EXCEPT !.last_result = <<result>>],
                 Append(log, Attempt(loop.effort, loop.slept, "content",
                                     result.content, None)),
                 <<Generated(result.content, result, loop.attempt, <<>>)>>)
    ELSE NextAttempt(call, [loop EXCEPT !.last_result = <<result>>, !.slept = 0],
                     Append(log, Attempt(loop.effort, loop.slept, "empty",
                                         result.content, None)))

\* complete_with_tools returns result to its caller
Returns(call, loop, log, result) ==
    IF call.fn = "generate_with_tools"
    THEN AttemptReturned(call, loop, log, result)
    ELSE Control("done", loop, log, <<result>>)

\* complete_with_tools raises to its caller
Raises(call, loop, log, err) ==
    IF call.fn = "generate_with_tools"
    THEN AttemptRaised(call, loop, log, err)
    ELSE Control("raised", loop, log, <<[error |-> err]>>)

\* lines 299-345: one provider call of complete_with_tools, given what the
\* provider does
AfterResponse(call, loop, log, r) ==
    IF r.kind = "raises" THEN Raises(call, loop, log, r.err)
    ELSE IF ~call.tools
    THEN Returns(call, loop, log, ToolLoopResult(r, <<>>, <<>>, <<>>))
    ELSE IF r.kind = "no_choices"
    THEN Raises(call, loop, log, "list index out of range")
    ELSE IF r.tool_calls = 0
    THEN Returns(call, loop, log,
                 ToolLoopResult(r, <<loop.tool_executions>>, <<loop.iteration + 1>>, <<>>))
    ELSE Control("tools", [loop EXCEPT !.result = <<r>>], log, <<>>)

\* the tool loop with an error in place of the flag when the iterations run out
AfterTools_RaisesAtBound(call, loop, log, ok) ==
    IF ~ok THEN Raises(call, loop, log, "ToolExecutor failed")
    ELSE IF loop.iteration + 1 < call.max_iterations
    THEN Control("request",
                 [loop EXCEPT !.iteration = @ + 1,
                              !.tool_executions = @ + loop.result[1].tool_calls],
                 log, <<>>)
    ELSE Raises(call, loop, log, "Max iterations reached")

\* lines 349-395: the tool calls of the response are executed, all of them
\* returning (ok) or one of them raising; then the next iteration, or the
\* return after the last one
AfterTools(call, loop, log, ok) ==
    IF ~ok THEN Raises(call, loop, log, "ToolExecutor failed")
    ELSE IF loop.iteration + 1 < call.max_iterations
    THEN Control("request",
                 [loop EXCEPT !.iteration = @ + 1,
                              !.tool_executions = @ + loop.result[1].tool_calls],
                 log, <<>>)
    ELSE Returns(call,
                 [loop EXCEPT !.iteration = @ + 1,
                              !.tool_executions = @ + loop.result[1].tool_calls],
                 log,
                 ToolLoopResult(loop.result[1],
                                <<loop.tool_executions + loop.result[1].tool_calls>>,
                                <<call.max_iterations>>, <<TRUE>>))

NoLoop == LoopState(0, None, 0, 0, 0, 0, <<>>, <<>>, None)

OpenRouterIdle ==
    /\ o_call = OpenRouterCall("none", None, FALSE, 0, 0, None)
    /\ o_ctl = Control("idle", NoLoop, <<>>, <<>>)

OpenRouterInit ==
    /\ o_call \in OpenRouterCalls
    /\ o_ctl = Control(IF o_call.fn = "generate_with_tools" THEN "attempt" ELSE "request",
                       [NoLoop EXCEPT !.effort = o_call.reasoning_effort], <<>>, <<>>)

\* lines 428-445: an attempt starts; a retry for a gemini-3 model runs with
\* reasoning_effort low
StartAttempt ==
    /\ o_ctl.pc = "attempt"
    /\ o_ctl' = [o_ctl EXCEPT
                    !.pc = "request",
                    !.loop = [@ EXCEPT
                        !.effort = IF o_ctl.loop.attempt > 0 /\ IsGemini3(o_call.model)
                                   THEN "low" ELSE o_call.reasoning_effort,
                        !.iteration = 0, !.calls = 0, !.tool_executions = 0]]
    /\ UNCHANGED o_call
    /\ UNCHANGED notOpenRouter

\* await self.client.chat.completions.create(**params), lines 299-345 (line
\* 150 of complete() when no tools are asked for)
Request ==
    /\ o_ctl.pc = "request"
    /\ \E r \in ProviderResponses :
        o_ctl' = AfterResponse(o_call, [o_ctl.loop EXCEPT !.calls = @ + 1], o_ctl.log, r)
    /\ UNCHANGED o_call
    /\ UNCHANGED notOpenRouter

\* lines 349-395: await self._execute_tool(tool_call) for each tool call
ExecuteTools ==
    /\ o_ctl.pc = "tools"
    /\ \E ok \in BOOLEAN :
        o_ctl' = AfterTools(o_call, o_ctl.loop, o_ctl.log, ok)
    /\ UNCHANGED o_call
    /\ UNCHANGED notOpenRouter

\* line 469: await asyncio.sleep(2 ** attempt), then the next attempt
Backoff ==
    /\ o_ctl.pc = "backoff"
    /\ o_ctl' = [o_ctl EXCEPT
                    !.pc = "attempt",
                    !.loop = [@ EXCEPT !.slept = 2 ^ o_ctl.loop.attempt,
                                       !.attempt = @ + 1]]
    /\ UNCHANGED o_call
    /\ UNCHANGED notOpenRouter

OpenRouterNext ==
    \/ StartAttempt
    \/ Request
    \/ ExecuteTools
    \/ Backoff

-----------------------------------------------------------------------------
(***************************************************************************)
(* get_gemini_client (shared/gemini_client.py): the module global          *)
(* _gemini_client and the coroutines of one event loop that ask for the    *)
(* client.  get_gemini_client and GeminiClient.__init__ are plain          *)
(* functions without an await, so a call is one step of the event loop.    *)
(***************************************************************************)
\* the coroutines that ask for the client (query generation and the probes)
MaxTasks == 3

Tasks == 1..MaxTasks

\* GeminiClient.__init__, lines 26-41, the n-th construction: the instance,
\* or the ValueError of line 36 when no key is found
GeminiClient(n, api_key) ==
    IF api_key THEN [raised |-> None, instance |-> <<n>>]
    ELSE [raised |-> "GEMINI_API_KEY not found in environment", instance |-> <<>>]

\* get_gemini_client without the test of line 322: a client per call
get_gemini_client_PerCall(global, api_key) ==
    LET made == GeminiClient(global.built + 1, api_key)
    IN  [global |-> [client |-> made.instance,
                     built |-> IF made.raised = None THEN global.built + 1
                               ELSE global.built,
                     attempts |-> global.attempts + 1],
         raised |-> made.raised,
         returned |-> made.instance]

\* get_gemini_client, lines 318-324, on the global (<<>> is None) and the
\* counters of constructions: the global afterwards, what the call returns
\* or raises
get_gemini_client(global, api_key) ==
    IF global.client = <<>>
    THEN LET made == GeminiClient(global.built + 1, api_key)
         IN  [global |-> [client |-> made.instance,
                          built |-> IF made.raised = None THEN global.built + 1
                                    ELSE global.built,
                          attempts |-> global.attempts + 1],
              raised |-> made.raised,
              returned |-> made.instance]
    ELSE [global |-> global, raised |-> None, returned |-> global.client]

SingletonIdle ==
    /\ g_global = [client |-> <<>>, built |-> 0, attempts |-> 0]
    /\ g_env = FALSE
    /\ g_tasks = <<>>

SingletonInit ==
    /\ g_global = [client |-> <<>>, built |-> 0, attempts |-> 0]
    /\ g_env \in BOOLEAN
    /\ g_tasks = [t \in Tasks |-> [pc |-> "start", client |-> <<>>, raised |-> None]]

\* a coroutine calls get_gemini_client() (stage_mentions.py lines 63, 98)
GetClient(t) ==
    /\ g_tasks[t].pc = "start"
    /\ LET r == get_gemini_client(g_global, g_env)
       IN  /\ g_global' = r.global
           /\ g_tasks' = [g_tasks EXCEPT ![t] =
                            IF r.raised = None
                            THEN [pc |-> "awaiting", client |-> r.returned, raised |-> None]
                            ELSE [pc |-> "failed", client |-> <<>>, raised |-> r.raised]]
    /\ UNCHANGED g_env
    /\ UNCHANGED notSingleton

\* the await on the client's request ends and the coroutine returns
RequestEnds(t) ==
    /\ g_tasks[t].pc = "awaiting"
    /\ g_tasks' = [g_tasks EXCEPT ![t].pc = "done"]
    /\ UNCHANGED <<g_global, g_env>>
    /\ UNCHANGED notSingleton

\* GEMINI_API_KEY is set or unset in the environment of the process
EnvironmentChanges ==
    /\ \E t \in Tasks : g_tasks[t].pc = "start"
    /\ g_env' = ~g_env
    /\ UNCHANGED <<g_global, g_tasks>>
    /\ UNCHANGED notSingleton

SingletonNext ==
    \/ \E t \in Tasks : GetClient(t)
    \/ \E t \in Tasks : RequestEnds(t)
    \/ EnvironmentChanges

-----------------------------------------------------------------------------
(***************************************************************************)
(* Specifications                                                          *)
(***************************************************************************)
HealthIdle ==
    /\ h_pc = "idle"
    /\ fetch_result = [error |-> None, final_url |-> None, js_rendered |-> FALSE]
    /\ all_results = <<>>
    /\ health_output = <<>>
    /\ h_calls = {}
    /\ score_before = -1
    /\ fixes = 0

InitHealth ==
    HealthInit /\ MentionsIdle /\ AggregateIdle /\ PipelineIdle /\ ScoringIdle /\ QueriesIdle
    /\ OpenRouterIdle /\ SingletonIdle

\* run_stage_health on every fetch outcome and every list of check results
SpecHealth == InitHealth /\ [][HealthNext]_vars

InitMentions ==
    MentionsInit /\ HealthIdle /\ AggregateIdle /\ PipelineIdle /\ ScoringIdle /\ QueriesIdle
    /\ OpenRouterIdle /\ SingletonIdle

\* run_stage_mentions on every input and every behaviour of the provider
SpecMentions == InitMentions /\ [][MentionsNext]_vars

InitAggregate ==
    AggregateInit /\ HealthIdle /\ MentionsIdle /\ PipelineIdle /\ ScoringIdle /\ QueriesIdle
    /\ OpenRouterIdle /\ SingletonIdle

\* the metrics of run_stage_mentions on every list of results
SpecAggregate == InitAggregate /\ [][AggregateNext]_vars

InitPipeline ==
    PipelineInit /\ HealthIdle /\ MentionsIdle /\ AggregateIdle /\ ScoringIdle /\ QueriesIdle
    /\ OpenRouterIdle /\ SingletonIdle

\* run_pipeline on every input and every ending of its branches
SpecPipeline == InitPipeline /\ [][PipelineNext]_vars

InitScoring ==
    ScoringInit /\ HealthIdle /\ MentionsIdle /\ AggregateIdle /\ PipelineIdle /\ QueriesIdle
    /\ OpenRouterIdle /\ SingletonIdle

\* the scoring engine on every list of check results and every score
SpecScoring == InitScoring /\ [][ScoringNext]_vars

InitQueries ==
    QueriesInit /\ HealthIdle /\ MentionsIdle /\ AggregateIdle /\ PipelineIdle /\ ScoringIdle
    /\ OpenRouterIdle /\ SingletonIdle

\* the query generator and the probe on every input and provider behaviour
SpecQueries == InitQueries /\ [][QueriesNext]_vars

InitOpenRouter ==
    OpenRouterInit /\ HealthIdle /\ MentionsIdle /\ AggregateIdle /\ PipelineIdle
    /\ ScoringIdle /\ QueriesIdle /\ SingletonIdle

\* complete_with_tools and generate_with_tools on every provider behaviour
SpecOpenRouter == InitOpenRouter /\ [][OpenRouterNext]_vars

\* the same, every await of the call ending
SpecOpenRouterLive == SpecOpenRouter /\ WF_vars(OpenRouterNext)

InitSingleton ==
    SingletonInit /\ HealthIdle /\ MentionsIdle /\ AggregateIdle /\ PipelineIdle
    /\ ScoringIdle /\ QueriesIdle /\ OpenRouterIdle

\* the coroutines of one event loop asking for the provider client
SpecSingleton == InitSingleton /\ [][SingletonNext]_vars

-----------------------------------------------------------------------------
(***************************************************************************)
(* Properties of the scoring engine and the health stage (SpecHealth).     *)
(***************************************************************************)
\* the stage returned the output of a scored page
Scored == h_pc = "done" /\ fetch_result.error = None

\* C1: the final score is min(tier0.cap, tier1.cap, tier2.cap, base_score)
\* rounded to one decimal: it exceeds none of the three caps nor the rounded
\* base score, and it is one of those four values.
C1_FinalScoreIsMinOfCapsAndBase ==
    Scored =>
        LET o == health_output[1]
            caps == {10 * o.tier_details.tier0.cap, 10 * o.tier_details.tier1.cap,
                     10 * o.tier_details.tier2.cap}
            base == Round1(calculate_base_score(all_results))
        IN  /\ \A c \in caps : o.score <= c
            /\ o.score <= base
            /\ o.score \in caps \cup {base}

\* C1 witness: a scored page whose base score is above a cap below 100, so
\* that the cap decides the final score.
C1_Witness ==
    /\ Scored
    /\ health_output[1].tier_details.base_score > health_output[1].score
    /\ health_output[1].score = 10 * health_output[1].tier_details.tier2.cap
    /\ health_output[1].tier_details.tier1.cap = 100
    /\ health_output[1].tier_details.tier0.cap = 100

\* C2: turning one failing check into a passing one (nothing else changed)
\* never lowers the final score.
C2_Monotonicity ==
    (Scored /\ score_before # -1) => health_output[1].score >= score_before

SpecCrawlerChecks ==
    {"gptbot_access", "claudebot_access", "perplexitybot_access", "ccbot_access"}

\* C10: when the four AI-crawler-access checks all fail and every other
\* check passes, tier0 cap is 10, the final score 10, the limiting tier
\* tier0, the grade F and the band Critical.
C10_AllCrawlersBlocked ==
    (/\ Scored
     /\ fixes = 0
     /\ \A c \in SpecCrawlerChecks : \E i \in 1..Len(all_results) : all_results[i].check = c
     /\ \A i \in 1..Len(all_results) :
            all_results[i].passed <=> all_results[i].check \notin SpecCrawlerChecks)
    => /\ health_output[1].tier_details.tier0.cap = 10
       /\ health_output[1].score = 100
       /\ health_output[1].tier_details.limiting_tier = "tier0"
       /\ health_output[1].grade = "F"
       /\ health_output[1].band = "Critical"

-----------------------------------------------------------------------------
(***************************************************************************)
(* Properties of the metrics of run_stage_mentions (SpecAggregate).        *)
(***************************************************************************)
\* the metrics of a_results have been computed
Aggregated == a_metrics # NoMetrics

\* C4: mentions is the number of results with company_mentioned true,
\* visibility is mentions / total * 100, presence_rate is the number of
\* results with a response / total * 100, quality_score is
\* min(10, visibility / 10); on the empty list all four are 0; visibility is
\* within [0, 100] and quality_score within [0, 10]; 10 results with 3
\* mentions give mentions 3, visibility 30.0 and quality_score 3.0.  The
\* arithmetic is that of Python floats.
C4_VisibilityAggregation ==
    Aggregated =>
        LET total == Len(a_results)
            mentioned == Cardinality({i \in 1..Len(a_results) :
                                        a_results[i].company_mentioned})
            responded == Cardinality({i \in 1..Len(a_results) :
                                        a_results[i].has_response})
        IN  /\ a_metrics.mentions = mentioned
            /\ total = 0 =>
                /\ a_metrics.mentions = 0
                /\ a_metrics.visibility = FloatZero
                /\ a_metrics.presence_rate = FloatZero
                /\ a_metrics.quality_score = FloatZero
            /\ total > 0 =>
                /\ a_metrics.visibility = FloatMulInt(TrueDiv(mentioned, total), 100)
                /\ a_metrics.presence_rate = FloatMulInt(TrueDiv(responded, total), 100)
            /\ a_metrics.quality_score =
                 FloatMin(FromInt(10), FloatDivInt(a_metrics.visibility, 10))
            /\ FloatLeq(FloatZero, a_metrics.visibility)
            /\ FloatLeq(a_metrics.visibility, FromInt(100))
            /\ FloatLeq(FloatZero, a_metrics.quality_score)
            /\ FloatLeq(a_metrics.quality_score, FromInt(10))
            /\ (total = 10 /\ mentioned = 3) =>
                /\ a_metrics.mentions = 3
                /\ a_metrics.visibility = FromInt(30)
                /\ a_metrics.quality_score = FromInt(3)

\* C4 witness: the metrics of 10 results, 3 of them with a mention and some
\* other with a response and no mention: visibility 30.0, quality_score 3.0.
C4_Witness ==
    /\ Aggregated
    /\ Len(a_results) = 10
    /\ Cardinality({i \in 1..Len(a_results) : a_results[i].company_mentioned}) = 3
    /\ \E i \in 1..Len(a_results) :
        a_results[i].has_response /\ ~a_results[i].company_mentioned
    /\ a_metrics.visibility = FromInt(30)
    /\ a_metrics.quality_score = FromInt(3)

-----------------------------------------------------------------------------
(***************************************************************************)
(* Properties of the mentions stage (SpecMentions).                        *)
(***************************************************************************)
\* generate_hyperniche_queries has ended
GenerationEnded == m_pc # "start"

\* len() of what generate_hyperniche_queries returned
SizeOf(v) == IF v.t = "array" THEN Len(v.items) ELSE Len(v.chars)

\* C5: for every num_queries >= 1 and every behaviour of the provider
\* (client not constructed, call raises, success false, text that is no
\* JSON, JSON of any shape) generate_hyperniche_queries returns, raising
\* nothing, at most num_queries elements.
C5_QueryCountContract ==
    GenerationEnded =>
        /\ gen_path \in {"primary", "fallback"}
        /\ queries.t \in {"array", "string"}
        /\ SizeOf(queries) <= m_input.num_queries

\* C5 witness: the provider failed, num_queries is below 3 and the
\* rule-based queries were cut to num_queries.
C5_Witness ==
    /\ GenerationEnded
    /\ gen_path = "fallback"
    /\ m_input.num_queries < 3
    /\ queries.t = "array"
    /\ Len(queries.items) = m_input.num_queries

\* C6: generate_hyperniche_queries always returns a non-empty list; an
\* empty JSON array from the provider is replaced by the rule-based queries.
C6_NeverEmpty ==
    GenerationEnded => (queries.t = "array" /\ Len(queries.items) > 0)

\* the stage returned its output
MentionsDone == m_pc = "done"

\* C7: whatever the order in which the probes complete, query_results is as
\* long as queries_generated and the i-th result is the result of the i-th
\* query.
C7_BatchOrderPreserved ==
    MentionsDone =>
        /\ Len(mentions_output[1].query_results)
             = Len(mentions_output[1].queries_generated)
        /\ \A i \in 1..Len(mentions_output[1].queries_generated) :
            mentions_output[1].query_results[i].query
              = mentions_output[1].queries_generated[i].query

\* C7 witness: three probes, the second completed last, and the stage
\* returned.
C7_Witness ==
    /\ MentionsDone
    /\ completed = <<1, 3, 2>>
    /\ Len(mentions_output[1].query_results) = 3

\* C8: test_query_with_gemini returns a QueryResult for its query on every
\* outcome of the provider and raises nothing, so the gather of the batch
\* never raises: every probe of the batch completes and the stage returns
\* the results of all of them.
C8_ProbeNeverRaises ==
    /\ \A i \in 1..Len(probes) :
        /\ probes[i].status \in {"running", "returned"}
        /\ probes[i].status = "returned" => probes[i].result.query = probes[i].query
    /\ m_pc = "raised" => probes = <<>>
    /\ MentionsDone =>
        /\ Len(mentions_output[1].query_results) = Len(probes)
        /\ \A i \in 1..Len(probes) : probes[i].status = "returned"

\* C8 witness: the stage returned a batch in which the provider raised for
\* the first probe to complete and a later probe got a response.
C8_Witness ==
    /\ MentionsDone
    /\ Len(completed) >= 2
    /\ mentions_output[1].query_results[completed[1]].error # None
    /\ mentions_output[1].query_results[completed[2]].has_response

\* C18: run_stage_mentions raises for no response of the provider to the
\* generation call (a failure, text that is no JSON, JSON of an unexpected
\* shape): what the generator hands to the probe batch is a list of queries
\* that each have a query field, and the stage goes on to return its output.
C18_GenerationNeverAbortsStage ==
    /\ m_pc # "raised"
    /\ GenerationEnded =>
        /\ queries.t = "array"
        /\ \A i \in 1..Len(queries.items) : "query" \in queries.items[i].keys

\* C29: a QueryResult with company_mentioned true has has_response true;
\* so in the output of the stage mentions is at most the number of results
\* with a response, which is at most the number of results, visibility is
\* at most presence_rate, and ai_calls is 1 plus the number of results.
C29_MentionImpliesResponse ==
    /\ \A i \in 1..Len(probes) :
        (probes[i].status = "returned" /\ probes[i].result.company_mentioned)
            => probes[i].result.has_response
    /\ MentionsDone =>
        /\ \A i \in 1..Len(mentions_output[1].query_results) :
              mentions_output[1].query_results[i].company_mentioned
                  => mentions_output[1].query_results[i].has_response
        /\ mentions_output[1].mentions
              <= Cardinality({i \in 1..Len(mentions_output[1].query_results) :
                                 mentions_output[1].query_results[i].has_response})
        /\ Cardinality({i \in 1..Len(mentions_output[1].query_results) :
                           mentions_output[1].query_results[i].has_response})
              <= Len(mentions_output[1].query_results)
        /\ FloatLeq(mentions_output[1].visibility, mentions_output[1].presence_rate)
        /\ mentions_output[1].ai_calls = 1 + Len(mentions_output[1].query_results)

\* C29 witness: three results, one with a mention, one with a response that
\* does not name the company, one without a response: 1 mention, 2
\* responses, visibility below presence_rate, 4 calls.
C29_Witness ==
    /\ MentionsDone
    /\ Len(mentions_output[1].query_results) = 3
    /\ mentions_output[1].mentions = 1
    /\ Cardinality({i \in 1..3 : mentions_output[1].query_results[i].has_response}) = 2
    /\ ~FloatLeq(mentions_output[1].presence_rate, mentions_output[1].visibility)
    /\ mentions_output[1].ai_calls = 4

-----------------------------------------------------------------------------
(***************************************************************************)
(* Properties of the pipeline (SpecPipeline).                              *)
(***************************************************************************)
\* C9: run_pipeline never raises; in the PipelineOutput it returns, health
\* is non-null exactly when run_health is set, url is supplied and the
\* health branch returned, and mentions is non-null exactly when
\* run_mentions is set, company_name is supplied and the mentions branch
\* returned, whatever became of the other branch.
C9_PipelineAlwaysReturns ==
    /\ p_pc # "raised"
    /\ p_pc = "done" =>
        /\ Len(p_output) = 1
        /\ (p_output[1].health # <<>>) <=>
             (p_input.run_health /\ Truthy(p_input.url) /\ health_task.kind = "dict")
        /\ (p_output[1].mentions # <<>>) <=>
             (p_input.run_mentions /\ Truthy(p_input.company_name)
              /\ mentions_task.kind = "dict")

\* run_pipeline returned its output
PipelineReturned == p_pc = "done" /\ Len(p_output) = 1

BranchRaised(task) == task.started /\ task.kind = "exception"

\* C19: in the output of run_pipeline, error is null exactly when no
\* started branch raised; it is the message of the health branch when that
\* branch raised, whether or not mentions raised too and whichever ended
\* first, and the message of the mentions branch when only that one raised.
C19_FirstErrorInSubmissionOrder ==
    PipelineReturned =>
        /\ (p_output[1].error = None) <=>
             (~BranchRaised(health_task) /\ ~BranchRaised(mentions_task))
        /\ BranchRaised(health_task) => p_output[1].error = health_task.msg
        /\ (~BranchRaised(health_task) /\ BranchRaised(mentions_task)) =>
             p_output[1].error = mentions_task.msg

\* C19 witness: both branches raised, mentions first in time and with
\* another message, and the output carries the message of health.
C19_Witness ==
    /\ PipelineReturned
    /\ BranchRaised(health_task)
    /\ BranchRaised(mentions_task)
    /\ p_ended = <<"mentions", "health">>
    /\ health_task.msg = "Connection timed out"
    /\ mentions_task.msg = "Quota exceeded"
    /\ p_output[1].error = "Connection timed out"
    /\ p_output[1].health = <<>>
    /\ p_output[1].mentions = <<>>

-----------------------------------------------------------------------------
(***************************************************************************)
(* Properties of the scoring engine called on its own (SpecScoring).       *)
(***************************************************************************)
\* a list of check results has been scored, and LastScore is its score
IssuesScored == s_call.fn = "calculate_tiered_score" /\ s_result # <<>>

LastScore == s_result[Len(s_result)]

\* the list holds an org_schema_completeness check that reports "No
\* Organization schema found"
ReportsNoOrgSchema(issues) ==
    \E i \in 1..Len(issues) :
        /\ issues[i].check = "org_schema_completeness"
        /\ issues[i].message = Msg.NoOrgSchema

\* every check the tiers look up is in the list, and the
\* org_schema_completeness check is the only one that fails
OnlyOrgSchemaFails(issues) ==
    /\ \A c \in TierLookups : \E i \in 1..Len(issues) : issues[i].check = c
    /\ \A i \in 1..Len(issues) :
        issues[i].passed <=> issues[i].check # "org_schema_completeness"

Base92NoCap ==
    /\ IssuesScored
    /\ calculate_base_score(s_call.issues).num = 92 * calculate_base_score(s_call.issues).den
    /\ LastScore.tier_details.tier0.cap = 100
    /\ LastScore.tier_details.tier1.cap = 100
    /\ LastScore.tier_details.tier2.cap = 100

\* C12 (as stated): when the base score is 92 and tier0, tier1 and tier2 all
\* have cap 100, the final score is 92, the grade is A, the band is
\* Excellent and limiting_tier is base.
C12_Base92 ==
    Base92NoCap =>
        /\ LastScore.score = 920
        /\ LastScore.grade = "A"
        /\ LastScore.band = "Excellent"
        /\ LastScore.tier_details.limiting_tier = "base"

\* C12 (amended): when the base score is 92 and tier0, tier1 and tier2 all
\* have cap 100, the final score is 92, the grade is A+ (92 >= 90), the band
\* is Excellent and limiting_tier is base.
C12_Base92Amended ==
    Base92NoCap =>
        /\ LastScore.score = 920
        /\ LastScore.grade = "A+"
        /\ LastScore.band = "Excellent"
        /\ LastScore.tier_details.limiting_tier = "base"

\* C12 witness: a scored list with base score 92 and no cap below 100, one
\* check of which fails.
C12_Witness ==
    /\ Base92NoCap
    /\ LastScore.score = 920
    /\ LastScore.checks_failed = 1

\* C13: every score has a grade and a band; the grade is A+ from 90, A from
\* 80, B from 65, C from 45, D from 25 and F below; the band is Excellent
\* from 80, Strong from 65, Moderate from 45, Weak from 25 and Critical
\* below, each threshold included; so F goes with Critical, D with Weak, C
\* with Moderate, B with Strong, and A and A+ with Excellent.
C13_GradeAndBandThresholds ==
    \A k \in 1..Len(s_result) :
        LET x == s_result[k].score
            grade == s_result[k].grade
            band == s_result[k].band
        IN  /\ grade \in {"A+", "A", "B", "C", "D", "F"}
            /\ band \in {"Excellent", "Strong", "Moderate", "Weak", "Critical"}
            /\ (grade = "A+") <=> (x >= 900)
            /\ (grade = "A") <=> (x >= 800 /\ x < 900)
            /\ (grade = "B") <=> (x >= 650 /\ x < 800)
            /\ (grade = "C") <=> (x >= 450 /\ x < 650)
            /\ (grade = "D") <=> (x >= 250 /\ x < 450)
            /\ (grade = "F") <=> (x < 250)
            /\ (band = "Excellent") <=> (x >= 800)
            /\ (band = "Strong") <=> (x >= 650 /\ x < 800)
            /\ (band = "Moderate") <=> (x >= 450 /\ x < 650)
            /\ (band = "Weak") <=> (x >= 250 /\ x < 450)
            /\ (band = "Critical") <=> (x < 250)
            /\ (grade = "F") <=> (band = "Critical")
            /\ (grade = "D") <=> (band = "Weak")
            /\ (grade = "C") <=> (band = "Moderate")
            /\ (grade = "B") <=> (band = "Strong")
            /\ (grade \in {"A", "A+"}) <=> (band = "Excellent")

\* C13 witness: the grade and the band of the score 25.0, a threshold: D and
\* Weak.
C13_Witness ==
    /\ s_call.fn = "calculate_grade"
    /\ s_call.score = 250
    /\ s_result # <<>>
    /\ s_result[1].grade = "D"
    /\ s_result[1].band = "Weak"

\* the list was scored with a failing check that the tiers look up, and
\* again with that check removed
ScoredWithoutCheck == s_call.fn = "calculate_tiered_score" /\ Len(s_result) = 2

\* C17: removing from the list a check that a tier looks up never gives a
\* higher cap, in any of the three tiers, than the same list with that check
\* present and failing; every list with checks missing, the empty list
\* included, is evaluated.
C17_MissingCheckFailSafe ==
    /\ ScoredWithoutCheck =>
        /\ s_result[2].tier_details.tier0.cap <= s_result[1].tier_details.tier0.cap
        /\ s_result[2].tier_details.tier1.cap <= s_result[1].tier_details.tier1.cap
        /\ s_result[2].tier_details.tier2.cap <= s_result[1].tier_details.tier2.cap
    /\ IssuesScored =>
        \A t \in {LastScore.tier_details.tier0, LastScore.tier_details.tier1,
                  LastScore.tier_details.tier2} : t.cap \in 0..100

\* the list holds a robots_meta check that fails with a message containing
\* noindex
NoindexReported(issues) ==
    \E i \in 1..Len(issues) :
        /\ issues[i].check = "robots_meta"
        /\ ~issues[i].passed
        /\ issues[i].message = Msg.NoindexFound

\* C20: when the robots_meta check fails with a message containing noindex,
\* tier0 cap is 5 and the final score at most 5, however many of the
\* AI-crawler access checks fail.
C20_NoindexCapsAtFive ==
    (IssuesScored /\ NoindexReported(s_call.issues)) =>
        /\ LastScore.tier_details.tier0.cap = 5
        /\ LastScore.score <= 5 * 10

\* the essentials of tier 1 as the list reports them
OrgSchemaPresent(issues) ==
    \E i \in 1..Len(issues) :
        issues[i].check = "org_schema_completeness" /\ issues[i].message # Msg.NoOrgSchema

TitlePresent(issues) ==
    \E i \in 1..Len(issues) :
        issues[i].check = "title_tag" /\ issues[i].message # Msg.TitleMissing

HttpsPresent(issues) ==
    \E i \in 1..Len(issues) : issues[i].check = "https" /\ issues[i].passed

MissingEssentials(issues) ==
    (IF OrgSchemaPresent(issues) THEN <<>> ELSE <<"Organization schema">>)
    \o (IF TitlePresent(issues) THEN <<>> ELSE <<"title tag">>)
    \o (IF HttpsPresent(issues) THEN <<>> ELSE <<"HTTPS">>)

\* C21: tier1 cap is 100 exactly when Organization schema, title tag and
\* HTTPS are all present; 45 when the Organization schema alone is missing;
\* and 55, with a reason that lists every missing essential, when the
\* Organization schema is missing together with the title tag or HTTPS.
C21_Tier1CapSchedule ==
    IssuesScored =>
        /\ (LastScore.tier_details.tier1.cap = 100) <=> (MissingEssentials(s_call.issues) = <<>>)
        /\ MissingEssentials(s_call.issues) = <<"Organization schema">> =>
              LastScore.tier_details.tier1.cap = 45
        /\ (~OrgSchemaPresent(s_call.issues) /\ Len(MissingEssentials(s_call.issues)) >= 2) =>
              /\ LastScore.tier_details.tier1.cap = 55
              /\ LastScore.tier_details.tier1.reason
                    = <<"Missing essentials:">> \o MissingEssentials(s_call.issues)

\* the gaps tier 2 counts, as the list reports them
ImportantGaps(issues) ==
    (IF /\ OrgSchemaPresent(issues)
        /\ \A i \in 1..Len(issues) :
              issues[i].check = "org_schema_completeness"
                  => issues[i].message \in {Msg.NoOrgSchema, Msg.Org50}
     THEN 1 ELSE 0)
    + (IF \E i \in 1..Len(issues) : issues[i].check = "sameas_links" /\ issues[i].passed
       THEN 0 ELSE 1)

MinorGaps(issues) ==
    (IF \E i \in 1..Len(issues) :
            issues[i].check = "meta_description" /\ issues[i].message # Msg.MetaMissing
     THEN 0 ELSE 1)
    + (IF \E i \in 1..Len(issues) : issues[i].check = "content_word_count" /\ issues[i].passed
       THEN 0 ELSE 1)

LastBase == s_base[Len(s_base)]

\* the tiers in the order of lines 224-232
TierOrder == <<"tier0", "tier1", "tier2">>

TierNamed(name) ==
    CASE name = "tier0" -> LastScore.tier_details.tier0
      [] name = "tier1" -> LastScore.tier_details.tier1
      [] name = "tier2" -> LastScore.tier_details.tier2

\* cap + delta <= base_score, base_score <= cap + delta, and the same for
\* the smallest cap (delta is in tenths)
CapUpTo(cap, delta) == (10 * cap + delta) * LastBase.den <= 10 * LastBase.num

CapFrom(cap, delta) == 10 * LastBase.num <= (10 * cap + delta) * LastBase.den

SmallestCap ==
    CHOOSE c \in {TierNamed(TierOrder[k]).cap : k \in 1..3} :
        \A k \in 1..3 : c <= TierNamed(TierOrder[k]).cap

\* the cap is at most min(caps, base_score) + 1.0
WithinOne(cap) == cap <= SmallestCap + 1 /\ CapUpTo(cap, -10)

\* the first tier whose cap is within 1.0 of the final score, "base" if none
FirstWithinOne ==
    IF \E k \in 1..3 : WithinOne(TierNamed(TierOrder[k]).cap)
    THEN TierOrder[CHOOSE k \in 1..3 :
            /\ WithinOne(TierNamed(TierOrder[k]).cap)
            /\ \A j \in 1..(k - 1) : ~WithinOne(TierNamed(TierOrder[j]).cap)]
    ELSE "base"

\* C23 (as stated): limiting_tier is the first of tier0, tier1, tier2 whose
\* cap is at most the final score plus 1.0, and base when there is none;
\* limiting_reason is the reason of that tier; and limiting_tier names the
\* component that determined the final score: the cap of the tier named is
\* the final score, and with base the base score is.
C23_LimitingTier ==
    IssuesScored =>
        /\ LastScore.tier_details.limiting_tier = FirstWithinOne
        /\ LastScore.tier_details.limiting_tier \in {"tier0", "tier1", "tier2"} =>
              /\ LastScore.tier_details.limiting_reason
                    = TierNamed(LastScore.tier_details.limiting_tier).reason
              /\ TierNamed(LastScore.tier_details.limiting_tier).cap = SmallestCap
              /\ CapUpTo(SmallestCap, 0)
        /\ LastScore.tier_details.limiting_tier = "base" =>
              /\ LastScore.tier_details.limiting_reason = <<"Check performance">>
              /\ CapFrom(SmallestCap, 0)

\* C23 (amended): limiting_tier is the first of tier0, tier1, tier2 whose
\* cap is at most the final score plus 1.0, and base when there is none;
\* limiting_reason is the reason of that tier; the cap of the tier named is
\* the final score or above it by at most 1.0, and with base the final
\* score is the base score, more than 1.0 below every cap.
C23_LimitingTierAmended ==
    IssuesScored =>
        /\ LastScore.tier_details.limiting_tier = FirstWithinOne
        /\ LastScore.tier_details.limiting_tier \in {"tier0", "tier1", "tier2"} =>
              /\ LastScore.tier_details.limiting_reason
                    = TierNamed(LastScore.tier_details.limiting_tier).reason
              /\ WithinOne(TierNamed(LastScore.tier_details.limiting_tier).cap)
              /\ 10 * TierNamed(LastScore.tier_details.limiting_tier).cap >= LastScore.score
        /\ LastScore.tier_details.limiting_tier = "base" =>
              /\ LastScore.tier_details.limiting_reason = <<"Check performance">>
              /\ ~CapUpTo(SmallestCap, -10)
              /\ LastScore.score = LastScore.tier_details.base_score

\* C23 witness: every tier passes with cap 100 and the base score is 99.7:
\* the final score is the base score, and limiting_tier is tier0.
C23_Witness ==
    /\ IssuesScored
    /\ LastScore.tier_details.tier0.passed
    /\ LastScore.tier_details.tier1.passed
    /\ LastScore.tier_details.tier2.passed
    /\ LastScore.score = 997
    /\ LastScore.tier_details.limiting_tier = "tier0"
    /\ LastScore.tier_details.limiting_reason = <<"AI can access site">>

\* the sum of score_impact over the checks of the list at the indices in S
RECURSIVE ImpactOf(_, _)
ImpactOf(issues, S) ==
    IF S = {} THEN 0
    ELSE LET i == CHOOSE x \in S : TRUE
         IN  issues[i].score_impact + ImpactOf(issues, S \ {i})

\* ten times the credit the list earns: all of the impact of the passed
\* checks, 0.7 of it for failing notices, 0.3 for failing warnings
Credit10(issues) ==
    10 * ImpactOf(issues, {i \in 1..Len(issues) : issues[i].passed})
    + 7 * ImpactOf(issues, {i \in 1..Len(issues) :
                               ~issues[i].passed /\ issues[i].severity = "notice"})
    + 3 * ImpactOf(issues, {i \in 1..Len(issues) :
                               ~issues[i].passed /\ issues[i].severity = "warning"})

\* C24: base_score is 100 times the credit earned (the score_impact of the
\* passed checks whatever their severity, 0.7 of it for failing notices,
\* 0.3 for failing warnings, nothing for failing errors) over the sum of
\* all score_impact; it lies between 0 and 100; and it is 0 when the sum
\* of all score_impact is zero, the empty list included.
C24_BaseScore ==
    IssuesScored =>
        /\ LastBase.den > 0
        /\ ImpactOf(s_call.issues, 1..Len(s_call.issues)) > 0 =>
              LastBase.num * 10 * ImpactOf(s_call.issues, 1..Len(s_call.issues))
                 = 100 * Credit10(s_call.issues) * LastBase.den
        /\ ImpactOf(s_call.issues, 1..Len(s_call.issues)) = 0 => LastBase.num = 0
        /\ 0 <= LastBase.num
        /\ LastBase.num <= 100 * LastBase.den
        /\ LastScore.tier_details.base_score = RoundHalfEven(10 * LastBase.num, LastBase.den)

\* C24 witness: a passed check of severity warning and weight 1 with a
\* failing notice of weight 3 gives (1 + 0.7 * 3) / 4 * 100 = 77.5.
C24_Witness ==
    /\ IssuesScored
    /\ Len(s_call.issues) = 2
    /\ s_call.issues[1].passed
    /\ s_call.issues[1].severity = "warning"
    /\ s_call.issues[1].score_impact = 1
    /\ ~s_call.issues[2].passed
    /\ s_call.issues[2].severity = "notice"
    /\ s_call.issues[2].score_impact = 3
    /\ 10 * LastBase.num = 775 * LastBase.den
    /\ LastScore.tier_details.base_score = 775

-----------------------------------------------------------------------------
(***************************************************************************)
(* Properties of generate_hyperniche_queries and test_query_with_gemini    *)
(* called on their own (SpecQueries).                                      *)
(***************************************************************************)
GenerateCalled == q_call.fn = "generate_hyperniche_queries"

ProbeCalled == q_call.fn = "test_query_with_gemini"

\* the provider is unreachable or reports a failure
ProviderFailed(b) == b.kind # "response" \/ ~b.success

\* the provider answers with text that is not one JSON document once the
\* fences and the whitespace around it are removed (the empty text included)
InvalidJson(b) ==
    /\ b.kind = "response"
    /\ b.success
    /\ \/ StripFences(b.text) = <<>>
       \/ Len(StripFences(b.text)) > 1
       \/ StripFences(b.text)[1].tok # "json"

\* the rule-based list, from the profile fields of the call
RuleBasedQueries(c) ==
    <<[keys |-> {"query", "dimension"},
       query |-> <<"b","e","s","t"," ">>
                 \o (IF c.products = <<>> THEN <<"s","o","l","u","t","i","o","n">>
                     ELSE c.products[1])
                 \o <<" ","f","o","r"," ">>
                 \o (IF c.industry = <<>> THEN <<"c","o","m","p","a","n","i","e","s">>
                     ELSE c.industry),
       dimension |-> "Product-Industry"],
      [keys |-> {"query", "dimension"},
       query |-> c.company_name \o <<" ","a","l","t","e","r","n","a","t","i","v","e","s">>,
       dimension |-> "Competitive"],
      [keys |-> {"query", "dimension"},
       query |-> c.company_name,
       dimension |-> "Branded"]>>

\* C14: when the provider is unreachable, reports a failure or answers with
\* text that is not valid JSON, generate_hyperniche_queries raises nothing
\* and returns the fallback; the fallback is exactly the first
\* min(num_queries, 3) queries of the rule-based list (best product for
\* industry, company alternatives, company name), the same on every call
\* with the same arguments.
C14_FallbackQueries ==
    GenerateCalled =>
        /\ \A k \in 1..Len(q_result) :
            /\ (ProviderFailed(q_result[k].b) \/ InvalidJson(q_result[k].b))
                  => q_result[k].ret.path = "fallback"
            /\ q_result[k].ret.path = "fallback" =>
                /\ q_result[k].ret.exc = None
                /\ q_result[k].ret.value.t = "array"
                /\ Len(q_result[k].ret.value.items) = Min2(q_call.num_queries, 3)
                /\ q_result[k].ret.value.items
                     = SubSeq(RuleBasedQueries(q_call), 1, Min2(q_call.num_queries, 3))
        /\ \A j, k \in 1..Len(q_result) :
            (q_result[j].ret.path = "fallback" /\ q_result[k].ret.path = "fallback")
                => q_result[j].ret = q_result[k].ret

\* C14 witness: five queries are asked for a company with industry SaaS and
\* product CRM; the provider answers the first call with text that is no
\* JSON and is unreachable at the second; both calls return the same three
\* queries, the first of them "best CRM for SaaS".
C14_Witness ==
    /\ GenerateCalled
    /\ q_call.num_queries = 5
    /\ Len(q_result) = 2
    /\ q_result[1].b.text = <<Junk>>
    /\ q_result[2].b.kind = "raises"
    /\ q_result[1].ret = q_result[2].ret
    /\ Len(q_result[1].ret.value.items) = 3
    /\ q_result[1].ret.value.items[1].query
         = <<"b","e","s","t"," ","C","R","M"," ","f","o","r"," ","S","a","a","S">>

\* C15: whenever the provider fails for a probe, the call raising or the
\* client answering success false with an error message, the QueryResult of
\* test_query_with_gemini has has_response false, company_mentioned false
\* and an error.
C15_ProviderFailureHasError ==
    ProbeCalled =>
        \A k \in 1..Len(q_result) :
            ProviderFailed(q_result[k].b) =>
                /\ q_result[k].ret.exc = None
                /\ ~q_result[k].ret.value.has_response
                /\ ~q_result[k].ret.value.company_mentioned
                /\ q_result[k].ret.value.error # None

\* C16: on a provider success with a non-empty text, the QueryResult of
\* test_query_with_gemini has has_response true, company_mentioned true
\* exactly when the company name occurs in the text, letter case ignored,
\* response_length the length of the text, response_preview its first 200
\* characters, and no error.
C16_ProbeSuccess ==
    ProbeCalled =>
        \A k \in 1..Len(q_result) :
            LET text == q_result[k].b.text
                name == q_call.company_name
                r == q_result[k].ret.value
            IN  (q_result[k].b.kind = "response" /\ q_result[k].b.success /\ text # <<>>) =>
                    /\ q_result[k].ret.exc = None
                    /\ r.query = q_call.query
                    /\ r.has_response
                    /\ r.company_mentioned <=>
                         \E at \in 0..(Len(text) - Len(name)) :
                            \A j \in 1..Len(name) :
                                LowerChar(text[at + j]) = LowerChar(name[j])
                    /\ r.response_length = Len(text)
                    /\ Len(r.response_preview) = Min2(Len(text), 200)
                    /\ \A j \in 1..Len(r.response_preview) : r.response_preview[j] = text[j]
                    /\ r.error = None

\* C16 witness: the provider answers a probe for Acme with 240 characters
\* that name the company after the 200th: the mention is found in the whole
\* text and the preview is cut to 200 characters; another call got an answer
\* that writes the name in capitals.
C16_Witness ==
    /\ ProbeCalled
    /\ q_call.company_name = CompanyName
    /\ Len(q_result) = 2
    /\ q_result[1].b.text = TextLong
    /\ q_result[1].ret.value.company_mentioned
    /\ q_result[1].ret.value.response_length = 240
    /\ Len(q_result[1].ret.value.response_preview) = 200
    /\ ~Contains(Lower(CompanyName), Lower(q_result[1].ret.value.response_preview))
    /\ q_result[2].b.text = TextMention
    /\ q_result[2].ret.value.company_mentioned

\* C25: when the provider answers with a JSON array of query records,
\* generate_hyperniche_queries returns exactly num_queries of them: a longer
\* array is cut and a shorter one is padded.
C25_PrimaryExactCount ==
    GenerateCalled =>
        \A k \in 1..Len(q_result) :
            (q_result[k].ret.path = "primary" /\ q_result[k].ret.value.t = "array")
                => Len(q_result[k].ret.value.items) = q_call.num_queries

-----------------------------------------------------------------------------
(***************************************************************************)
(* Properties of OpenRouterClient (SpecOpenRouter, SpecOpenRouterLive)     *)
(***************************************************************************)
\* the call is over: it returned or raised
CallOver == o_ctl.pc \in {"done", "raised"}

\* complete_with_tools called directly, with tools
ToolLoopCalled == o_call.fn = "complete_with_tools" /\ o_call.tools

\* what a returned tool loop returned
ToolLoopReturn ==
    /\ o_ctl.ret[1].kind = "completion"
    /\ IF o_ctl.ret[1].tool_calls = 0
       THEN /\ o_ctl.ret[1].iterations = <<o_ctl.loop.calls>>
            /\ o_ctl.ret[1].max_iterations_reached = <<>>
       ELSE /\ o_ctl.loop.calls = o_call.max_iterations
            /\ o_ctl.ret[1].iterations = <<o_call.max_iterations>>
            /\ o_ctl.ret[1].max_iterations_reached = <<TRUE>>

ToolLoopBounded ==
    /\ o_call.tools => o_ctl.loop.calls <= o_call.max_iterations
    /\ ToolLoopCalled /\ o_ctl.pc = "done" => ToolLoopReturn

\* the loop goes on to execute tools only for a response that asks for
\* tools, and after the tools of the last iteration it raises only what a
\* tool raised
ToolLoopStep ==
    /\ o_ctl.pc = "request" /\ o_ctl'.pc = "tools" =>
            o_ctl'.loop.result[1].tool_calls > 0
    /\ ToolLoopCalled /\ o_ctl.pc = "tools" /\ o_ctl'.pc = "raised" =>
            o_ctl'.ret[1].error = "ToolExecutor failed"
    /\ ToolLoopCalled /\ o_ctl.pc = "tools" /\ o_ctl'.pc = "done" =>
            o_ctl.loop.iteration + 1 = o_call.max_iterations

GenerateWithToolsCalled == o_call.fn = "generate_with_tools"

\* the reasoning effort attempt number k (from 1) is to run with
EffortOfAttempt(k) ==
    IF k > 1 /\ IsGemini3(o_call.model) THEN "low" ELSE o_call.reasoning_effort

\* C27: generate_with_tools makes at most max_retries attempts; every retry,
\* after an empty completion as well as after an attempt that raised, comes
\* after a backoff sleep, and the sleeps double from one retry to the next
\* (1, 2, 4, ... seconds); a retry for a gemini-3 model runs with
\* reasoning_effort low, and the first attempt with the caller's parameters.
C27_RetryPolicy ==
    GenerateWithToolsCalled =>
        /\ Len(o_ctl.log) <= o_call.max_retries
        /\ \A k \in 1..Len(o_ctl.log) :
            /\ o_ctl.log[k].slept = (IF k = 1 THEN 0 ELSE 2 ^ (k - 2))
            /\ o_ctl.log[k].effort = EffortOfAttempt(k)

\* the attempts so far that returned a completion / that yielded content
ReturnedAttempts == {k \in 1..Len(o_ctl.log) : o_ctl.log[k].outcome # "raised"}
ContentAttempts == {k \in 1..Len(o_ctl.log) : o_ctl.log[k].outcome = "content"}

\* the last attempt that returned a completion
LastReturned == CHOOSE k \in ReturnedAttempts : \A j \in ReturnedAttempts : j <= k

\* C30: generate_with_tools returns at the first attempt whose completion has
\* non-empty content, with that content, retry_count = the number of earlier
\* attempts and no retries_exhausted key.  When no attempt yields content all
\* max_retries attempts are made; the call raises exactly when every attempt
\* raised, and it raises the last error; otherwise it returns
\* retries_exhausted = True, retry_count = max_retries - 1 and the content of
\* the last attempt that returned, whatever the later attempts raised.
C30_RetryOutcome ==
    GenerateWithToolsCalled =>
        /\ ContentAttempts \subseteq {Len(o_ctl.log)}
        /\ ContentAttempts # {} =>
            /\ o_ctl.pc = "done"
            /\ o_ctl.ret[1].content = o_ctl.log[Len(o_ctl.log)].content
            /\ o_ctl.ret[1].retry_count = Len(o_ctl.log) - 1
            /\ o_ctl.ret[1].retries_exhausted = <<>>
        /\ CallOver /\ ContentAttempts = {} =>
            /\ Len(o_ctl.log) = o_call.max_retries
            /\ o_ctl.pc = "raised" <=> ReturnedAttempts = {}
            /\ o_ctl.pc = "raised" =>
                    o_ctl.ret[1].error = o_ctl.log[Len(o_ctl.log)].err
            /\ o_ctl.pc = "done" =>
                /\ o_ctl.ret[1].retries_exhausted = <<TRUE>>
                /\ o_ctl.ret[1].retry_count = o_call.max_retries - 1
                /\ o_ctl.ret[1].content = o_ctl.log[LastReturned].content

\* C30 witness: three attempts; the first returns content None, the second
\* returns the empty string and the third raises: the call returns the
\* empty string of the second attempt with retries_exhausted
C30_Witness ==
    /\ GenerateWithToolsCalled /\ o_ctl.pc = "done"
    /\ Len(o_ctl.log) = 3
    /\ o_ctl.log[1].outcome = "empty" /\ o_ctl.log[1].content = None
    /\ o_ctl.log[2].outcome = "empty" /\ o_ctl.log[2].content = ""
    /\ o_ctl.log[3].outcome = "raised"
    /\ o_ctl.ret[1].retries_exhausted = <<TRUE>>
    /\ o_ctl.ret[1].content = ""

-----------------------------------------------------------------------------
(***************************************************************************)
(* Properties of get_gemini_client (SpecSingleton)                         *)
(***************************************************************************)
\* the coroutines to which get_gemini_client returned
Holders == {t \in Tasks : g_tasks[t].pc \in {"awaiting", "done"}}

\* at most one client was constructed, and every coroutine holds it
OneClient ==
    /\ g_global.built <= 1
    /\ \A t \in Holders : g_tasks[t].client # <<>> /\ g_tasks[t].client = g_global.client

\* a call of get_gemini_client by coroutine t in this step
Calls(t) == g_tasks[t].pc = "start" /\ g_tasks'[t].pc # "start"

\* a call that raises leaves the global None; a call that finds it None
\* constructs, a call that finds it set does not
LazyStep ==
    \A t \in Tasks :
        Calls(t) =>
            /\ g_tasks'[t].pc = "failed" => g_global'.client = <<>>
            /\ g_global.client = <<>> => g_global'.attempts = g_global.attempts + 1
            /\ g_global.client # <<>> => g_global' = g_global

\* C28: in every interleaving of the coroutines, GeminiClient is constructed
\* successfully at most once and every call of get_gemini_client that
\* returns yields that instance; a construction that fails for want of an
\* API key leaves _gemini_client None, and the next call constructs again.
C28_LazySingleton == []OneClient /\ [][LazyStep]_vars

\* C28 witness: the first call failed without a key; the key was then set,
\* the second call constructed the client and the third call got the same
\* one: two constructions attempted, one client
C28_Witness ==
    /\ g_tasks[1].pc = "failed"
    /\ g_tasks[2].pc = "awaiting" /\ g_tasks[3].pc = "done"
    /\ g_tasks[2].client = <<1>> /\ g_tasks[3].client = <<1>>
    /\ g_global = [client |-> <<1>>, built |-> 1, attempts |-> 2]
=============================================================================
